---- MODULE Spec2Model ----
(***************************************************************************)
(* A model of the iconimation animation compiler: keyframed series, the   *)
(* intermediate scene graph (ir.rs), the part grouper, spring expansion,  *)
(* the Lottie lowering (lottie.rs), the Android Vector Drawable lowering  *)
(* (android.rs), commands (command.rs) and icon names (ligate.rs).        *)
(*                                                                         *)
(* f64 values are modelled as exact rationals [n, d]; d = 0 encodes the   *)
(* non-finite floats (n = 1: +inf, n = -1: -inf, n = 0: NaN).             *)
(***************************************************************************)
EXTENDS Integers, Sequences, FiniteSets, TLC

VARIABLES series, lastCall, overflowChecks, pc, plan, glyph, animation, equilibria, lottie,
          avd

vars ==
    <<series, lastCall, overflowChecks, pc, plan, glyph, animation, equilibria, lottie, avd>>

kfVars == <<series, lastCall>>
pipeVars == <<overflowChecks, pc, plan, glyph, animation, equilibria, lottie, avd>>
\* what a call that only returns a value leaves alone
callVars == <<series, overflowChecks, plan, glyph, animation, equilibria, lottie, avd>>

\* Option::None
None == [none |-> TRUE]

----------------------------------------------------------------------------
(* Bounds of the model *)

\* longest list handed to a keyframe constructor, longest series grown by push
MaxLen == 3
\* frames offered to the keyframe constructors are 0, FrameStep, .. MaxFrameIdx*FrameStep
MaxFrameIdx == 2
\* most children of a group handed to to_avd_group directly
MaxChildren == 4
\* largest group index handed to twirl and pulse directly
MaxGroupIdx == 3
\* latest frame at which a simulated spring is taken to reach equilibrium
MaxEquilibriumFrame == 4

----------------------------------------------------------------------------
(* f64 arithmetic *)

Abs(x) == IF x < 0 THEN -x ELSE x
Sgn(x) == IF x < 0 THEN -1 ELSE IF x > 0 THEN 1 ELSE 0

RECURSIVE GCD(_, _)
GCD(a, b) == IF b = 0 THEN a ELSE GCD(b, a % b)

Norm(n, d) ==
    IF d = 0 THEN [n |-> Sgn(n), d |-> 0]
    ELSE LET g == GCD(Abs(n), Abs(d))
             s == IF d < 0 THEN -1 ELSE 1
         IN  [n |-> (s * n) \div g, d |-> (s * d) \div g]

R(i) == [n |-> i, d |-> 1]
Frac(n, d) == Norm(n, d)

IsNaN(a) == a.d = 0 /\ a.n = 0

RAdd(a, b) ==
    IF a.d = 0 /\ b.d = 0 THEN (IF a.n = b.n THEN a ELSE [n |-> 0, d |-> 0])
    ELSE IF a.d = 0 THEN a
    ELSE IF b.d = 0 THEN b
    ELSE Norm(a.n * b.d + b.n * a.d, a.d * b.d)
RNeg(a) == [n |-> -a.n, d |-> a.d]
RSub(a, b) == RAdd(a, RNeg(b))
RMul(a, b) == Norm(a.n * b.n, a.d * b.d)
RInv(a) == Norm(a.d, a.n)
RDiv(a, b) == RMul(a, RInv(b))

\* f64 `==` and `<`: NaN equals nothing
REq(a, b) == a = b /\ ~IsNaN(a)
RLt(a, b) == ~IsNaN(a) /\ ~IsNaN(b) /\ a # b /\ a.n * b.d < b.n * a.d
RGt(a, b) == RLt(b, a)

\* OrderedFloat's total order: NaN is equal to itself and greater than all
OrderedLt(a, b) == IF IsNaN(a) THEN FALSE ELSE IF IsNaN(b) THEN TRUE ELSE RLt(a, b)

----------------------------------------------------------------------------
(* Results *)

Ok(v) == [ok |-> TRUE, value |-> v]
Err(e) == [ok |-> FALSE, error |-> e]

NoKeyframes == [kind |-> "NoKeyframes"]
MultipleValuesForFrame(f) == [kind |-> "MultipleValuesForFrame", frame |-> f]
DuplicateKeyframes == [kind |-> "DuplicateKeyframes"]

----------------------------------------------------------------------------
(* Keyframed<T> (ir.rs) *)

Keyframe(frame, value) == [frame |-> frame, value |-> value]

\* Keyframed::new
KeyframedNew(frame, value, spring) ==
    [keyframes |-> <<Keyframe(frame, value)>>, spring |-> spring]

earliest(k) == k.keyframes[1]
is_animated(k) == Len(k.keyframes) > 1

\* Iterator::position over the sequence of the predicate's values: the index of
\* the first TRUE, 0 when there is none
Position(hits) ==
    IF \E i \in 1..Len(hits) : hits[i]
    THEN CHOOSE i \in 1..Len(hits) : hits[i] /\ \A j \in 1..(i - 1) : ~hits[j]
    ELSE 0

\* Keyframed::push
push(self, keyframe) ==
    LET pos == Position([i \in 1..Len(self.keyframes) |->
                            REq(self.keyframes[i].frame, keyframe.frame)])
    IN  IF pos # 0
        THEN [self EXCEPT !.keyframes = [self.keyframes EXCEPT ![pos] = keyframe]]
        ELSE [self EXCEPT !.keyframes = Append(self.keyframes, keyframe)]

\* Ord of a sort key: a key is a tuple of OrderedFloat, compared lexicographically
RECURSIVE KeyLt(_, _)
KeyLt(a, b) ==
    IF a = <<>> \/ b = <<>> THEN FALSE
    ELSE IF OrderedLt(a[1], b[1]) THEN TRUE
    ELSE IF OrderedLt(b[1], a[1]) THEN FALSE
    ELSE KeyLt(Tail(a), Tail(b))

\* slice::sort_by_key, a stable sort, over <<key, element>> pairs: each element
\* is inserted after the elements whose key is not greater
RECURSIVE InsertByKey(_, _)
InsertByKey(sorted, e) ==
    IF sorted = <<>> THEN <<e>>
    ELSE IF KeyLt(e[1], sorted[Len(sorted)][1])
         THEN Append(InsertByKey(SubSeq(sorted, 1, Len(sorted) - 1), e),
                     sorted[Len(sorted)])
         ELSE Append(sorted, e)

RECURSIVE SortKeyed(_, _)
SortKeyed(done, rest) ==
    IF rest = <<>> THEN done
    ELSE SortKeyed(InsertByKey(done, rest[1]), Tail(rest))

NoSort(keyed) == [i \in 1..Len(keyed) |-> keyed[i][2]]

\* sort_by_key / sort_by_cached_key of the elements of <<key, element>> pairs
sort_by_key(keyed) ==
    LET sorted == SortKeyed(<<>>, keyed)
    IN  [i \in 1..Len(keyed) |-> sorted[i][2]]

\* the <<key, element>> pairs of a list of (f64, T), the key being the frame
KeyedByFrame(value) == [i \in 1..Len(value) |-> <<(<<value[i][1]>>), value[i]>>]

\* TryFrom<Vec<(f64, T)>> for Keyframed<T>; value is a sequence of <<frame, T>>
try_from(value) ==
    IF value = <<>> THEN Err(NoKeyframes)
    ELSE LET sorted == sort_by_key(KeyedByFrame(value))
             dup == Position([i \in 1..(Len(sorted) - 1) |->
                                REq(sorted[i][1], sorted[i + 1][1])])
         IN  IF dup # 0 THEN Err(MultipleValuesForFrame(sorted[dup][1]))
             ELSE Ok([keyframes |-> [i \in 1..Len(sorted) |->
                                        Keyframe(sorted[i][1], sorted[i][2])],
                      spring |-> None])

\* Animated::new (animator.rs); positions is a sequence of <<IntervalPosition, T>>
AnimatedNew(positions) ==
    LET sorted == sort_by_key(KeyedByFrame(positions))
    IN  IF \E i \in 1..(Len(sorted) - 1) : REq(sorted[i][1], sorted[i + 1][1])
        THEN Err(DuplicateKeyframes)
        ELSE IF sorted = <<>> THEN Err(NoKeyframes)
        ELSE Ok(sorted)

----------------------------------------------------------------------------
(* BezPath (kurbo) restricted to polylines. A path is a sequence of        *)
(* elements [kind, p]; coordinates are integers in thousandths of a font   *)
(* unit, so that the 0.001 offsets of contained_point are 1.               *)

MoveTo(x, y) == [kind |-> "MoveTo", p |-> <<x, y>>]
LineTo(x, y) == [kind |-> "LineTo", p |-> <<x, y>>]
ClosePath == [kind |-> "ClosePath", p |-> <<0, 0>>]

Min(a, b) == IF a < b THEN a ELSE b
Max(a, b) == IF a > b THEN a ELSE b

\* crate::path_commands: one letter per element
path_commands(bez) ==
    [i \in 1..Len(bez) |->
        CASE bez[i].kind = "ClosePath" -> "Z"
          [] bez[i].kind = "CurveTo" -> "C"
          [] bez[i].kind = "LineTo" -> "L"
          [] bez[i].kind = "MoveTo" -> "M"
          [] bez[i].kind = "QuadTo" -> "Q"]

\* index of the MoveTo that opens the subpath element i belongs to (0: none)
SubpathStart(bez, i) ==
    IF \E j \in 1..i : bez[j].kind = "MoveTo"
    THEN CHOOSE j \in 1..i : bez[j].kind = "MoveTo"
                             /\ \A k \in (j + 1)..i : bez[k].kind # "MoveTo"
    ELSE 0

StartPoint(bez, i) ==
    IF SubpathStart(bez, i) = 0 THEN <<0, 0>> ELSE bez[SubpathStart(bez, i)].p

\* the current point after element i
PointAfter(bez, i) ==
    IF i = 0 THEN <<0, 0>>
    ELSE IF bez[i].kind = "ClosePath" THEN StartPoint(bez, i)
    ELSE bez[i].p

\* BezPath::segments: the line drawn by element i, <<>> when it draws none
SegmentOf(bez, i) ==
    IF bez[i].kind = "LineTo" THEN <<PointAfter(bez, i - 1), bez[i].p>>
    ELSE IF bez[i].kind = "ClosePath" /\ PointAfter(bez, i - 1) # StartPoint(bez, i)
         THEN <<PointAfter(bez, i - 1), StartPoint(bez, i)>>
    ELSE <<>>

\* PathSeg::winding of a line from a to b around pt
LineWinding(a, b, pt) ==
    LET sign == IF b[2] > a[2]
                THEN (IF pt[2] < a[2] \/ pt[2] >= b[2] THEN 0 ELSE -1)
                ELSE IF b[2] < a[2]
                     THEN (IF pt[2] < b[2] \/ pt[2] >= a[2] THEN 0 ELSE 1)
                     ELSE 0
        ca == b[2] - a[2]
        cb == a[1] - b[1]
        cc == ca * a[1] + cb * a[2]
    IN  IF sign = 0 THEN 0
        ELSE IF pt[1] < Min(a[1], b[1]) THEN 0
        ELSE IF pt[1] >= Max(a[1], b[1]) THEN sign
        ELSE IF (ca * pt[1] + cb * pt[2] - cc) * sign <= 0 THEN sign
        ELSE 0

\* the winding of a segment of BezPath::segments, none for <<>>
SegmentWinding(seg, pt) ==
    IF seg = <<>> THEN 0 ELSE LineWinding(seg[1], seg[2], pt)

RECURSIVE WindingUpTo(_, _, _)
WindingUpTo(bez, n, pt) ==
    IF n = 0 THEN 0
    ELSE WindingUpTo(bez, n - 1, pt) + SegmentWinding(SegmentOf(bez, n), pt)

\* Shape::winding and Shape::contains of a BezPath
winding(bez, pt) == WindingUpTo(bez, Len(bez), pt)
contains(bez, pt) == winding(bez, pt) # 0

\* twice Shape::area of a BezPath: the sum of the segments' signed areas
SegmentArea2(seg) ==
    IF seg = <<>> THEN 0 ELSE seg[1][1] * seg[2][2] - seg[1][2] * seg[2][1]

RECURSIVE Area2UpTo(_, _)
Area2UpTo(bez, n) ==
    IF n = 0 THEN 0
    ELSE Area2UpTo(bez, n - 1) + SegmentArea2(SegmentOf(bez, n))

area2(bez) == Area2UpTo(bez, Len(bez))

\* Rect
Rect(x0, y0, x1, y1) == [x0 |-> x0, y0 |-> y0, x1 |-> x1, y1 |-> y1]
RectArea(r) == (r.x1 - r.x0) * (r.y1 - r.y0)
RectIntersect(a, b) ==
    LET x0 == Max(a.x0, b.x0)
        y0 == Max(a.y0, b.y0)
        x1 == Min(a.x1, b.x1)
        y1 == Min(a.y1, b.y1)
    IN  Rect(x0, y0, Max(x1, x0), Max(y1, y0))
RectUnion(a, b) ==
    Rect(Min(a.x0, b.x0), Min(a.y0, b.y0), Max(a.x1, b.x1), Max(a.y1, b.y1))
RectCenter(r) == [x |-> Frac(r.x0 + r.x1, 2), y |-> Frac(r.y0 + r.y1, 2)]

\* the points a polyline passes through
DrawnPoints(bez) == {bez[i].p : i \in {j \in 1..Len(bez) : bez[j].kind # "ClosePath"}}

SetMin(S) == CHOOSE x \in S : \A y \in S : x <= y
SetMax(S) == CHOOSE x \in S : \A y \in S : x >= y

\* the smallest Rect around a set of points
BoxOf(points) ==
    IF points = {} THEN Rect(0, 0, 0, 0)
    ELSE Rect(SetMin({q[1] : q \in points}), SetMin({q[2] : q \in points}),
              SetMax({q[1] : q \in points}), SetMax({q[2] : q \in points}))

\* Shape::bounding_box of a BezPath
bounding_box(bez) == BoxOf(DrawnPoints(bez))

\* ContainedPoint::contained_point (bezop.rs): the first offset of the start
\* point that the subpath contains
ProbeOffsets ==
    << <<0, 0>>, <<0, 1>>, <<0, -1>>, <<1, 0>>, <<1, 1>>, <<1, -1>>,
       <<-1, 0>>, <<-1, 1>>, <<-1, -1>> >>

\* the start point moved by each offset in turn
Candidates(p) ==
    [i \in 1..Len(ProbeOffsets) |-> <<p[1] + ProbeOffsets[i][1], p[2] + ProbeOffsets[i][2]>>]

\* Iterator::find: the candidate at the first hit
Found(cand, hit) == IF hit = 0 THEN None ELSE [some |-> cand[hit]]

contained_point(bez) ==
    IF bez = <<>> \/ bez[1].kind # "MoveTo" THEN None
    ELSE Found(Candidates(bez[1].p),
               Position([i \in 1..Len(ProbeOffsets) |->
                            contains(bez, Candidates(bez[1].p)[i])]))

----------------------------------------------------------------------------
(* Panics: an operation that can panic returns Done(v) or Panic(msg) *)

Done(v) == [panic |-> FALSE, value |-> v]
Panic(msg) == [panic |-> TRUE, msg |-> msg]

----------------------------------------------------------------------------
(* Shapes: Keyframed<BezPath> (ir.rs) *)

\* Keyframe<BezPath>::subpaths. `elements.len() - 1` underflows on the empty
\* path: a panic with overflow checks, a wrapped usize::MAX without them
RECURSIVE SplitAtMoves(_, _, _, _)
SplitAtMoves(elements, last_start, i, paths) ==
    IF i > Len(elements) THEN <<paths, last_start>>
    ELSE IF elements[i].kind = "MoveTo"
         THEN SplitAtMoves(elements, i, i + 1,
                           Append(paths, SubSeq(elements, last_start, i - 1)))
         ELSE SplitAtMoves(elements, last_start, i + 1, paths)

\* Keyframe<BezPath>::subpaths after its loop left paths and last_start
LastSubpath(elements, paths, last_start, overflow_checks) ==
    IF elements = <<>>
    THEN (IF overflow_checks THEN Panic("attempt to subtract with overflow")
          ELSE Done(Append(paths, <<>>)))
    ELSE IF last_start < Len(elements)
         THEN Done(Append(paths, SubSeq(elements, last_start, Len(elements))))
         ELSE Done(paths)

KeyframeSubpaths(elements, overflow_checks) ==
    LastSubpath(elements, SplitAtMoves(elements, 1, 2, <<>>)[1],
                SplitAtMoves(elements, 1, 2, <<>>)[2], overflow_checks)

\* the first panic in a sequence of outcomes, 0 when there is none
FirstPanic(outcomes) == Position([k \in 1..Len(outcomes) |-> outcomes[k].panic])

\* `.try_into().unwrap()` of every series of Keyframed<BezPath>::subpaths
UnwrapAll(built) ==
    IF \E i \in 1..Len(built) : ~built[i].ok
    THEN Panic("unwrap on Err")
    ELSE Done([i \in 1..Len(built) |-> built[i].value])

\* Keyframed<BezPath>::subpaths once every keyframe is split: per[k] are the
\* subpaths of keyframe k
LineUp(self, per) ==
    IF FirstPanic(per) # 0 THEN per[FirstPanic(per)]
    ELSE IF \E k \in 1..Len(per) : Len(per[k].value) # Len(per[1].value)
    THEN Panic("Incompatible subpaths unsupported")
    ELSE UnwrapAll([i \in 1..Len(per[1].value) |->
                       try_from([k \in 1..Len(per) |->
                                    <<self.keyframes[k].frame, per[k].value[i]>>])])

\* Keyframed<BezPath>::subpaths
KeyframedSubpaths(self, overflow_checks) ==
    LineUp(self, [k \in 1..Len(self.keyframes) |->
                     KeyframeSubpaths(self.keyframes[k].value, overflow_checks)])

----------------------------------------------------------------------------
(* Group and Element (ir.rs) *)

Vec2Zero == [x |-> R(0), y |-> R(0)]

\* the 2014 Material Design palette of nth_group_color
COLORS ==
    << <<239, 83, 80>>, <<236, 64, 122>>, <<171, 71, 188>>,
       <<229, 57, 53>>, <<216, 27, 96>>, <<142, 36, 170>>,
       <<198, 40, 40>>, <<173, 20, 87>>, <<106, 27, 154>> >>

nth_group_color(n) == COLORS[(n % Len(COLORS)) + 1]

\* Default for Group
GroupDefault ==
    [children |-> <<>>,
     center |-> [x |-> R(0), y |-> R(0)],
     fill |-> None,
     translate |-> KeyframedNew(R(0), Vec2Zero, None),
     scale |-> KeyframedNew(R(0), <<R(100), R(100)>>, None),
     rotate |-> KeyframedNew(R(0), R(0), None)]

ElementGroup(g) == [type |-> "Group", group |-> g]
ElementShape(s) == [type |-> "Shape", shape |-> s]

RECURSIVE Concat(_)
Concat(seqs) == IF seqs = <<>> THEN <<>> ELSE Head(seqs) \o Concat(Tail(seqs))

\* group_parts deciding by the parity of the sum (the even-odd rule)
IsFilledEvenOdd(paths, contained) ==
    LET total[n \in 0..Len(paths)] ==
            IF n = 0 THEN 0 ELSE total[n - 1] + winding(paths[n], contained.some)
    IN  IF contained = None THEN FALSE ELSE total[Len(paths)] % 2 # 0

\* group_parts (free function): the sum of the windings of all paths around
\* the contained point of one of them decides whether that one is filled
IsFilled(paths, contained) ==
    LET total[n \in 0..Len(paths)] ==
            IF n = 0 THEN 0 ELSE total[n - 1] + winding(paths[n], contained.some)
    IN  IF contained = None THEN FALSE ELSE total[Len(paths)] # 0

Filled(paths) == [i \in 1..Len(paths) |-> IsFilled(paths, contained_point(paths[i]))]

\* group_parts: filled ahead of unfilled, smaller bounding box before larger
Ordered(paths, filled) ==
    sort_by_key([i \in 1..Len(paths) |->
                    << (<<R(IF filled[i] THEN -1 ELSE 0),
                          R(RectArea(bounding_box(paths[i])))>>), i >>])

\* group_parts: the loop that opens a group per filled subpath and adds each
\* cutout to the first group whose bounding box contains its bounding box
RECURSIVE AssignParts(_, _, _, _, _, _)
\* one turn of the loop: shape i with bounding box bbox lands in group `at`, the
\* first whose bounding box contains bbox (0 when there is none)
AssignPart(ordered, shapes, paths, filled, groups, bboxes, i, bbox, at) ==
    IF filled[i]
    THEN AssignParts(Tail(ordered), shapes, paths, filled,
                     Append(groups, <<shapes[i]>>), Append(bboxes, bbox))
    ELSE IF at # 0
         THEN AssignParts(Tail(ordered), shapes, paths, filled,
                          [groups EXCEPT ![at] = Append(@, shapes[i])], bboxes)
         ELSE AssignParts(Tail(ordered), shapes, paths, filled, groups, bboxes)

AssignParts(ordered, shapes, paths, filled, groups, bboxes) ==
    IF ordered = <<>> THEN groups
    ELSE AssignPart(ordered, shapes, paths, filled, groups, bboxes, Head(ordered),
                    bounding_box(paths[Head(ordered)]),
                    Position([g \in 1..Len(bboxes) |->
                                 RectIntersect(bboxes[g], bounding_box(paths[Head(ordered)]))
                                 = bounding_box(paths[Head(ordered)])]))

UnionOfBoxes(shapes) ==
    LET acc[n \in 1..Len(shapes)] ==
            IF n = 1 THEN bounding_box(earliest(shapes[1]).value)
            ELSE RectUnion(acc[n - 1], bounding_box(earliest(shapes[n]).value))
    IN  acc[Len(shapes)]

\* group_parts: a Group per list of shapes, centered on their bounding box
PartGroups(groups) ==
    [g \in 1..Len(groups) |->
        [GroupDefault EXCEPT
            !.children = [c \in 1..Len(groups[g]) |-> ElementShape(groups[g][c])],
            !.center = RectCenter(UnionOfBoxes(groups[g])),
            !.fill = [some |-> nth_group_color(g - 1)]]]

\* group_parts from the point where the first-keyframe paths are known
GroupPaths(shapes, paths) ==
    PartGroups(AssignParts(Ordered(paths, Filled(paths)), shapes, paths, Filled(paths),
                           <<>>, <<>>))

\* group_parts from the point where every input shape is split in subpaths
GroupSubpaths(shapes) ==
    GroupPaths(shapes, [i \in 1..Len(shapes) |-> earliest(shapes[i]).value])

\* group_parts, split[k] being the outcome of shapes_in[k].subpaths()
GroupSplit(split) ==
    IF FirstPanic(split) # 0 THEN split[FirstPanic(split)]
    ELSE Done(GroupSubpaths(Concat([k \in 1..Len(split) |-> split[k].value])))

\* group_parts (free function, ir.rs)
group_parts(shapes_in, overflow_checks) ==
    GroupSplit([k \in 1..Len(shapes_in) |->
                   KeyframedSubpaths(shapes_in[k], overflow_checks)])

\* the length of the run of Shape elements at the head of a child list
RECURSIVE ShapeRunLen(_)
ShapeRunLen(children) ==
    IF children = <<>> \/ children[1].type # "Shape" THEN 0
    ELSE 1 + ShapeRunLen(Tail(children))

\* Group::group_parts, a group that was already there: kept, regrouped in turn
KeepGroup(group, inner, rest) ==
    IF rest.panic THEN rest
    ELSE IF inner.panic THEN inner
    ELSE Done(<<ElementGroup([group EXCEPT !.children = inner.value])>> \o rest.value)

\* Group::group_parts, a run of shapes: replaced by its part groups
ReplaceRun(parts, rest) ==
    IF parts.panic THEN parts
    ELSE IF rest.panic THEN rest
    ELSE Done([g \in 1..Len(parts.value) |-> ElementGroup(parts.value[g])] \o rest.value)

\* Group::group_parts, the children from the first on
RECURSIVE Regroup(_, _)
Regroup(children, overflow_checks) ==
    IF children = <<>> THEN Done(<<>>)
    ELSE IF children[1].type = "Group"
    THEN KeepGroup(children[1].group,
                   Regroup(children[1].group.children, overflow_checks),
                   Regroup(Tail(children), overflow_checks))
    ELSE ReplaceRun(group_parts([k \in 1..ShapeRunLen(children) |-> children[k].shape],
                                overflow_checks),
                    Regroup(SubSeq(children, ShapeRunLen(children) + 1, Len(children)),
                            overflow_checks))

\* `group.children = new_children`
SetChildren(self, children) ==
    IF children.panic THEN children ELSE Done([self EXCEPT !.children = children.value])

\* Group::group_parts
GroupGroupParts(self, overflow_checks) ==
    SetChildren(self, Regroup(self.children, overflow_checks))

child_groups_reversed(self) ==
    LET idx == {i \in 1..Len(self.children) : self.children[i].type = "Group"}
        nth[n \in 1..Cardinality(idx)] ==
            CHOOSE i \in idx : Cardinality({j \in idx : j > i}) = n - 1
    IN  nth

\* Group::mutable_child_groups: the indices of the children that are groups
mutable_child_groups(self) ==
    LET idx == {i \in 1..Len(self.children) : self.children[i].type = "Group"}
        nth[n \in 1..Cardinality(idx)] ==
            CHOOSE i \in idx : Cardinality({j \in idx : j < i}) = n - 1
    IN  nth

----------------------------------------------------------------------------
(* Spring presets (spring.rs). natural_freq = sqrt(stiffness) is kept as   *)
(* the stiffness it is the root of.                                        *)

SpringNewInternal(damping, stiffness) ==
    IF RGt(damping, R(1))
    THEN [regime |-> "Overdamped", damping |-> damping, natural_freq_sq |-> stiffness]
    ELSE IF RLt(damping, R(1))
    THEN [regime |-> "Underdamped", damping |-> damping, natural_freq_sq |-> stiffness]
    ELSE [regime |-> "CriticallyDamped", natural_freq_sq |-> stiffness]

SpringStandard == SpringNewInternal(R(1), R(380))
SpringSmoothSpatial == SpringNewInternal(R(1), R(190))
SpringSmoothNonSpatial == SpringNewInternal(R(1), R(380))
SpringExpressiveSpatial == SpringNewInternal(Frac(8, 10), R(380))
SpringExpressiveNonSpatial == SpringNewInternal(R(1), R(380))

SpringNames ==
    {"standard", "smooth-spatial", "smooth-non-spatial", "expressive-spatial",
     "expressive-non-spatial"}

\* FromStr for Spring
SpringFromStr(name) ==
    CASE name = "standard" -> Ok(SpringStandard)
      [] name = "smooth-spatial" -> Ok(SpringSmoothSpatial)
      [] name = "smooth-non-spatial" -> Ok(SpringSmoothNonSpatial)
      [] name = "expressive-spatial" -> Ok(SpringExpressiveSpatial)
      [] name = "expressive-non-spatial" -> Ok(SpringExpressiveNonSpatial)
      [] OTHER -> Err([kind |-> "UnrecognizedSpring"])

----------------------------------------------------------------------------
(* Motion of a group (ir.rs) *)

\* `.try_into().unwrap()` followed by `kf.spring = spring`
UnwrapTagged(kf, spring) ==
    IF ~kf.ok THEN Panic("unwrap on Err") ELSE Done([kf.value EXCEPT !.spring = spring])

\* 0.2 * (end - start) * k
FrameAt(start, end, k) == RMul(RMul(Frac(2, 10), RSub(end, start)), R(k))

twirlOffBy(spring, start, end, nth_group) ==
    IF ~RGt(end, start) THEN Panic("assertion failed: end > start")
    ELSE UnwrapTagged(try_from(<< <<FrameAt(start, end, nth_group), R(0)>>,
                                  <<FrameAt(start, end, nth_group + 12), R(360)>> >>),
                      spring)

\* twirl: keyframes for Group::rotate
twirl(spring, start, end, nth_group) ==
    IF ~RGt(end, start) THEN Panic("assertion failed: end > start")
    ELSE UnwrapTagged(try_from(<< <<FrameAt(start, end, nth_group), R(0)>>,
                                  <<FrameAt(start, end, nth_group + 2), R(360)>> >>),
                      spring)

pulseShort(spring, start, end, nth_group) ==
    IF ~RGt(end, start) THEN Panic("assertion failed: end > start")
    ELSE UnwrapTagged(
            try_from(<< <<FrameAt(start, end, nth_group), <<R(100), R(100)>> >>,
                        <<FrameAt(start, end, nth_group + 1), <<R(150), R(150)>> >> >>),
            spring)

\* pulse: keyframes for Group::scale
pulse(spring, start, end, nth_group) ==
    IF ~RGt(end, start) THEN Panic("assertion failed: end > start")
    ELSE UnwrapTagged(
            try_from(<< <<FrameAt(start, end, nth_group), <<R(100), R(100)>> >>,
                        <<FrameAt(start, end, nth_group + 1), <<R(150), R(150)>> >>,
                        <<FrameAt(start, end, nth_group + 2), <<R(100), R(100)>> >> >>),
            spring)

\* AnimationPlan: a motion kind, its arguments and the optional spring
Plan(kind, args, spring) == [kind |-> kind, args |-> args, spring |-> spring]

\* AnimationPlan::spring
PlanSpring(p) == p.spring

\* the loop `for (i, g) in self.mutable_child_groups().enumerate()` of animate:
\* made[n] is the series made for the n-th child group
SetChildSeries(self, field, made) ==
    IF FirstPanic(made) # 0 THEN made[FirstPanic(made)]
    ELSE Done([self EXCEPT !.children =
                 [c \in 1..Len(self.children) |->
                     IF \E n \in DOMAIN made : mutable_child_groups(self)[n] = c
                     THEN ElementGroup(
                            [self.children[c].group EXCEPT
                                ![field] = made[CHOOSE m \in DOMAIN made :
                                                   mutable_child_groups(self)[m] = c].value])
                     ELSE self.children[c]]])

\* `self.rotate = ...`, `self.scale = ...`
SetSeries(self, field, kf) ==
    IF kf.panic THEN kf ELSE Done([self EXCEPT ![field] = kf.value])

\* Group::animate, TwirlParts once group_parts is done
TwirlEach(grouped, spring, frames) ==
    IF grouped.panic THEN grouped
    ELSE SetChildSeries(grouped.value, "rotate",
                        [n \in DOMAIN mutable_child_groups(grouped.value) |->
                            twirl(spring, R(0), frames, n - 1)])

\* Group::animate, PulseParts once group_parts is done
PulseEach(grouped, spring, frames) ==
    IF grouped.panic THEN grouped
    ELSE SetChildSeries(grouped.value, "scale",
                        [n \in DOMAIN mutable_child_groups(grouped.value) |->
                            pulse(spring, R(0), frames, n - 1)])

\* Group::animate
GroupAnimate(self, frames, p, overflow_checks) ==
    CASE p.kind = "None" -> Done(self)
      [] p.kind = "TwirlWhole" ->
            SetSeries(self, "rotate", twirl(PlanSpring(p), R(0), frames, 0))
      [] p.kind = "TwirlParts" ->
            TwirlEach(GroupGroupParts(self, overflow_checks), PlanSpring(p), frames)
      [] p.kind = "PulseWhole" ->
            SetSeries(self, "scale", pulse(PlanSpring(p), R(0), frames, 0))
      [] p.kind = "PulseParts" ->
            PulseEach(GroupGroupParts(self, overflow_checks), PlanSpring(p), frames)
      [] OTHER -> Panic("not yet implemented")

----------------------------------------------------------------------------
(* Glyphs: the outlines the font draws for a glyph at a designspace        *)
(* location (the position on one axis, 0 or 1), y-up in font units         *)

Upem == 8000
Unit == 1000

RectPath(x0, y0, x1, y1) ==
    <<MoveTo(x0 * Unit, y0 * Unit), LineTo(x1 * Unit, y0 * Unit),
      LineTo(x1 * Unit, y1 * Unit), LineTo(x0 * Unit, y1 * Unit), ClosePath>>
RectPathRev(x0, y0, x1, y1) ==
    <<MoveTo(x0 * Unit, y0 * Unit), LineTo(x0 * Unit, y1 * Unit),
      LineTo(x1 * Unit, y1 * Unit), LineTo(x1 * Unit, y0 * Unit), ClosePath>>
TrianglePath(x0, y0, x1, y1) ==
    <<MoveTo(x0 * Unit, y0 * Unit), LineTo(x1 * Unit, y0 * Unit),
      LineTo(x1 * Unit, y1 * Unit), ClosePath>>

\* a contour that goes up a vertical line and back: its bounding box has no width
SliverPath(x, y0, y1) == <<MoveTo(x * Unit, y0 * Unit), LineTo(x * Unit, y1 * Unit), ClosePath>>

GlyphNames ==
    {"square", "ring", "dots", "check_circle", "split", "morph", "stray", "sliver", "grid"}
Locations == {0, 1}

\* OutlineGlyph::draw at a location, before the transform
Outline(gid, location) ==
    CASE gid = "square" ->
            IF location = 0 THEN RectPath(2, 2, 6, 6) ELSE RectPath(1, 1, 7, 7)
      [] gid = "ring" ->
            IF location = 0 THEN RectPath(1, 1, 7, 7) \o RectPathRev(3, 3, 5, 5)
            ELSE RectPath(1, 1, 7, 7) \o RectPathRev(2, 2, 6, 6)
      [] gid = "dots" ->
            IF location = 0 THEN RectPath(4, 4, 7, 7) \o RectPath(1, 1, 3, 3)
            ELSE RectPath(3, 3, 7, 7) \o RectPath(1, 1, 2, 2)
      [] gid = "check_circle" ->
            IF location = 0
            THEN RectPath(0, 0, 8, 8) \o RectPathRev(1, 1, 7, 7) \o RectPath(3, 3, 5, 5)
            ELSE RectPath(0, 0, 8, 8) \o RectPathRev(1, 1, 7, 7) \o RectPath(2, 2, 6, 6)
      [] gid = "split" ->
            IF location = 0 THEN RectPath(1, 1, 7, 7)
            ELSE RectPath(1, 1, 3, 3) \o RectPath(5, 5, 7, 7)
      [] gid = "morph" ->
            IF location = 0 THEN RectPath(2, 2, 6, 6) ELSE TrianglePath(2, 2, 6, 6)
      [] gid = "stray" ->
            IF location = 0 THEN RectPath(1, 1, 4, 4) \o RectPathRev(2, 2, 6, 6)
            ELSE RectPath(1, 1, 5, 5) \o RectPathRev(2, 2, 6, 6)
      [] gid = "sliver" ->
            IF location = 0 THEN RectPath(1, 1, 3, 3) \o SliverPath(5, 1, 3)
            ELSE RectPath(1, 1, 4, 4) \o SliverPath(6, 1, 3)
      [] gid = "grid" ->
            RectPath(0, 0, 1, 1) \o RectPath(2, 0, 3, 1) \o RectPath(4, 0, 5, 1)
                \o RectPath(6, 0, 7, 1) \o RectPath(0, 2, 1, 3)

\* GlyphShape::new that keeps the end location it is given
GlyphShapeNewKeepsEnd(gid, start, end) == [gid |-> gid, start |-> start, end |-> end]

\* GlyphShape::new (lib.rs): an end location equal to the start is dropped
GlyphShapeNew(gid, start, end) ==
    [gid |-> gid, start |-> start,
     end |-> IF end # None /\ start = end.some THEN None ELSE end]

\* y_up_to_y_down(upem_box, upem_box) applied to a point: (x, y) -> (x, upem - y)
SrcToDest(pt) == <<pt[1], Upem - pt[2]>>

\* TransformPen: every point of the outline through src_to_dest_units
TransformPen(outline) ==
    [i \in 1..Len(outline) |->
        IF outline[i].kind = "ClosePath" THEN outline[i]
        ELSE [outline[i] EXCEPT !.p = SrcToDest(@)]]

\* draw (ir.rs): the outline at a location through the TransformPen
draw(location, gid) == TransformPen(Outline(gid, location))

\* Keyframed<BezPath>::for_glyph
for_glyph(last_frame, glyph_shape) ==
    IF glyph_shape.end # None
    THEN push(KeyframedNew(R(0), draw(glyph_shape.start, glyph_shape.gid),
                           SpringExpressiveNonSpatial),
              Keyframe(last_frame, draw(glyph_shape.end.some, glyph_shape.gid)))
    ELSE KeyframedNew(R(0), draw(glyph_shape.start, glyph_shape.gid),
                      SpringExpressiveNonSpatial)

\* Animation::of_icon, `animation.root = root; Ok(animation)`
SetRoot(anim, animated) ==
    IF animated.panic THEN animated ELSE Done(Ok([anim EXCEPT !.root = animated.value]))

\* Animation::of_icon, the animation with the default root
AnimationNew ==
    [width |-> R(Upem), height |-> R(Upem), frames |-> R(60), frame_rate |-> R(60),
     root |-> GroupDefault]

\* Animation::of_icon
of_icon(p, glyph_shape, overflow_checks) ==
    SetRoot(AnimationNew,
            GroupAnimate([GroupDefault EXCEPT
                            !.center = [x |-> RDiv(R(Upem), R(2)), y |-> RDiv(R(Upem), R(2))],
                            !.children = <<ElementShape(for_glyph(AnimationNew.frames,
                                                                  glyph_shape))>>],
                         AnimationNew.frames, p, overflow_checks))

----------------------------------------------------------------------------
(* Spring expansion: cubic_approximation (spring2cubic.rs), Motion (ir.rs) *)

Pt(x, y) == [x |-> x, y |-> y]
CubicBez(p0, p1, p2, p3) == [p0 |-> p0, p1 |-> p1, p2 |-> p2, p3 |-> p3]

DEFAULT_EASE ==
    CubicBez(Pt(R(0), R(0)), Pt(Frac(4, 10), R(0)), Pt(Frac(6, 10), R(1)), Pt(R(1), R(1)))

\* handwritten_cubic: x = frame, y = value from 0 to 100
handwritten_cubic(spring) ==
    IF spring = SpringStandard
    THEN Ok(<<CubicBez(Pt(R(0), R(0)), Pt(R(13), R(100)), Pt(R(0), R(100)),
                       Pt(R(43), R(100)))>>)
    ELSE IF spring = SpringSmoothSpatial
    THEN Ok(<<CubicBez(Pt(R(0), R(0)), Pt(R(20), R(100)), Pt(R(0), R(100)),
                       Pt(R(61), R(100)))>>)
    ELSE IF spring = SpringExpressiveSpatial
    THEN Ok(<<CubicBez(Pt(R(0), R(0)), Pt(R(5), R(15)), Pt(R(3), Frac(10154, 100)),
                       Pt(Frac(155, 10), Frac(10154, 100))),
              CubicBez(Pt(Frac(155, 10), Frac(10154, 100)), Pt(R(21), Frac(10154, 100)),
                       Pt(R(21), R(99)), Pt(R(42), R(100)))>>)
    ELSE Err([kind |-> "UnrecognizedSpring"])

\* AnimatedValue::new
AnimatedValueNew(from, to, value_type) ==
    [value |-> from, velocity |-> R(0), final_value |-> to, time |-> R(0),
     value_type |-> value_type]

\* Spring::new
SpringNew(damping, stiffness) ==
    IF RLt(damping, R(0)) THEN Err([kind |-> "InvalidDamping"])
    ELSE Ok(SpringNewInternal(damping, stiffness))

RAbs(a) == [n |-> Abs(a.n), d |-> a.d]
IsFinite(a) == a.d # 0

\* AnimatedValueType::thresholds, value_threshold
value_threshold(value_type) ==
    RMul(CASE value_type = "Position" -> Frac(1, 100)
           [] value_type = "Rotation" -> Frac(1, 10)
           [] value_type = "Scale" -> Frac(1, 500),
         Frac(75, 100))

VELOCITY_THRESHOLD_MULTIPLIER == Frac(1000, 16)

\* AnimatedValue::is_at_equilibrium of a state whose numbers are known
is_at_equilibrium(a) ==
    /\ RLt(RAbs(a.velocity),
           RMul(value_threshold(a.value_type), VELOCITY_THRESHOLD_MULTIPLIER))
    /\ RLt(RAbs(RSub(a.value, a.final_value)), value_threshold(a.value_type))

\* whether the spring ever brings a state to rest
IsDamped(spring) ==
    ~(spring.regime = "Underdamped" /\ REq(spring.damping, R(0)))

\* Spring::update repeated from `anim` up to the update of frame `frame`
\* (time frame / frame_rate), then is_at_equilibrium.  The update of frame 0
\* has delta_t = 0 and gives the state back.  A value or a final value that is
\* NaN or infinite stays so in every arm of update and is within no threshold.
\* The exponentials and the trigonometry of the later states have no exact
\* arithmetic: `settles` is the frame of the first state at equilibrium, None
\* when no state ever is.
SettledAt(anim, settles, frame) ==
    IF ~IsFinite(anim.value) \/ ~IsFinite(anim.final_value) THEN FALSE
    ELSE IF is_at_equilibrium(anim) \/ frame = 0 THEN is_at_equilibrium(anim)
    ELSE settles # None /\ frame >= settles.some

\* the trajectories a spring can give an animation that starts away from its
\* final value: an undamped spring keeps its energy and never rests, a damped
\* one rests at some frame
Trajectories(spring, anim, frames) ==
    IF ~IsFinite(anim.value) \/ ~IsFinite(anim.final_value) \/ ~IsDamped(spring)
    THEN {None}
    ELSE {[some |-> k] : k \in frames}

TIME_LIMIT == R(5)
IMPLAUSIBLY_LONG_TIME == R(300)

\* a loop that simulates a spring: `frame` is the loop's counter, `current` the
\* frame of the last update (None before the first), `result` what the loop
\* returned (None while it runs)
Simulation(loop, spring, anim, frame_rate, settles) ==
    [loop |-> loop, spring |-> spring, anim |-> anim,
     frame_rate |-> frame_rate, settles |-> settles,
     frame |-> IF loop = "SpringBetween::spring" THEN 1 ELSE 0,
     current |-> None, result |-> None]

\* `animated_value.is_at_equilibrium()` of the loop's current state
CurrentAtEquilibrium(l) ==
    IF l.current = None THEN is_at_equilibrium(l.anim)
    ELSE SettledAt(l.anim, l.settles, l.current.some)

\* num_frames with the counter advanced before the time is taken
NumFramesStepCountsFirst(l) ==
    IF CurrentAtEquilibrium(l) THEN [l EXCEPT !.result = Ok(l.frame)]
    ELSE IF RGt(RDiv(R(l.frame + 1), l.frame_rate), TIME_LIMIT)
    THEN [l EXCEPT !.result = Err([kind |-> "RanTooLong"])]
    ELSE [l EXCEPT !.current = [some |-> l.frame], !.frame = l.frame + 1]

\* num_frames, the test of the while loop and one turn of its body
NumFramesStep(l) ==
    IF CurrentAtEquilibrium(l) THEN [l EXCEPT !.result = Ok(l.frame)]
    ELSE IF RGt(RDiv(R(l.frame), l.frame_rate), TIME_LIMIT)
    THEN [l EXCEPT !.result = Err([kind |-> "RanTooLong"])]
    ELSE [l EXCEPT !.current = [some |-> l.frame], !.frame = l.frame + 1]

\* SpringFitter::new, the test of the while loop and one turn of its body, or
\* what follows the loop
SpringFitterStep(l) ==
    IF CurrentAtEquilibrium(l)
    THEN [l EXCEPT !.result = IF l.frame < 1 THEN Err([kind |-> "ImmediateEquilibrium"])
                               ELSE Ok(l.frame)]
    ELSE [l EXCEPT !.current = [some |-> l.frame + 1], !.frame = l.frame + 1,
                   !.result = IF RGt(RDiv(R(l.frame + 1), l.frame_rate),
                                     IMPLAUSIBLY_LONG_TIME)
                              THEN Err([kind |-> "NoEquilibrium",
                                        time |-> RDiv(R(l.frame + 1), l.frame_rate)])
                              ELSE None]

\* SpringBetween::spring for two keyframes of one value each, the test of the
\* `while let` loop and one turn of its body: frame is frame_values.len()
SpringBetweenStep(l) ==
    IF CurrentAtEquilibrium(l) THEN [l EXCEPT !.result = Ok(l.frame)]
    ELSE [l EXCEPT !.current = [some |-> l.frame], !.frame = l.frame + 1]

RECURSIVE NumFramesLoop(_)
NumFramesLoop(l) ==
    IF l.result # None THEN l.result ELSE NumFramesLoop(NumFramesStep(l))

\* num_frames: the count of updates the loop made; `simulated` is the frame at
\* which the spring settles
num_frames(frame_rate, anim, spring, simulated) ==
    NumFramesLoop(Simulation("num_frames", spring, anim, frame_rate, simulated))

\* the translation applied before the scale
ShiftThenScale(sx, sy, dy, c) ==
    LET at(q) == Pt(RMul(sx, q.x), RMul(sy, RAdd(q.y, dy)))
    IN  CubicBez(at(c.p0), at(c.p1), at(c.p2), at(c.p3))

\* Affine::scale_non_uniform(sx, sy).then_translate((0, dy)) applied to a cubic
ScaleThenShift(sx, sy, dy, c) ==
    LET at(q) == Pt(RMul(sx, q.x), RAdd(RMul(sy, q.y), dy))
    IN  CubicBez(at(c.p0), at(c.p1), at(c.p2), at(c.p3))

\* cubic_approximation with the frames counted before the template is looked up
ApproximateWithFramesFirst(handwritten_curve, frames, anim) ==
    IF ~frames.ok THEN frames
    ELSE IF ~handwritten_curve.ok THEN handwritten_curve
    ELSE Ok([c \in 1..Len(handwritten_curve.value) |->
                ScaleThenShift(
                    RDiv(R(frames.value),
                         handwritten_curve.value[Len(handwritten_curve.value)].p3.x),
                    RDiv(RSub(anim.final_value, anim.value), R(100)),
                    anim.value, handwritten_curve.value[c])])

\* cubic_approximation, the two `?` and the curve scaled to the frame count
\* and the range of the animation
ApproximateWith(handwritten_curve, frames, anim) ==
    IF ~handwritten_curve.ok THEN handwritten_curve
    ELSE IF ~frames.ok THEN frames
    ELSE Ok([c \in 1..Len(handwritten_curve.value) |->
                ScaleThenShift(
                    RDiv(R(frames.value),
                         handwritten_curve.value[Len(handwritten_curve.value)].p3.x),
                    RDiv(RSub(anim.final_value, anim.value), R(100)),
                    anim.value, handwritten_curve.value[c])])

\* cubic_approximation
cubic_approximation(frame_rate, anim, spring, simulated) ==
    ApproximateWith(handwritten_cubic(spring),
                    num_frames(frame_rate, anim, spring, simulated), anim)

\* MotionValue::reference_value for the type ty of the keyframe's value
reference_value(ty, kf, i) ==
    CASE ty = "f64" -> Done(kf.value)
      [] ty = "(f64, f64)" ->
            IF REq(kf.value[1], kf.value[2]) THEN Done(kf.value[1])
            ELSE Panic("not yet implemented: support 2d values")
      [] ty = "Vec2" ->
            IF REq(kf.value.x, kf.value.y) THEN Done(kf.value.x)
            ELSE Panic("not yet implemented: support 2d values")
      [] ty = "BezPath" -> Done(R(i * 100))

\* MotionValue::scaled
scaled(ty, kf, reference, i) ==
    CASE ty = "f64" -> Done([kf EXCEPT !.value = reference])
      [] ty = "(f64, f64)" ->
            Done([kf EXCEPT !.value =
                     <<reference, RMul(kf.value[2], RDiv(reference, kf.value[1]))>>])
      [] ty = "Vec2" ->
            Done([kf EXCEPT !.value =
                     Pt(reference, RMul(kf.value.y, RDiv(reference, kf.value.x)))])
      [] ty = "BezPath" -> Panic("not yet implemented")

\* Motion::new, `motion.keyframes.push(...)` and `motion.ease.push(cubic)`
PushCubic(m, cubic, value) ==
    IF value.panic THEN value
    ELSE Done([keyframes |->
                  Append(m.value.keyframes,
                         Keyframe(RAdd(RSub(cubic.p3.x, cubic.p0.x),
                                       m.value.keyframes[Len(m.value.keyframes)].frame),
                                  value.value.value)),
               ease |-> Append(m.value.ease, cubic)])

\* Motion::new, the body of `for cubic in cubics`: m is Done([keyframes, ease])
RECURSIVE PushCubics(_, _, _, _, _)
PushCubics(m, cubics, ty, kf2, i) ==
    IF m.panic \/ cubics = <<>> THEN m
    ELSE PushCubics(PushCubic(m, Head(cubics), scaled(ty, kf2, Head(cubics).p3.y, i)),
                    Tail(cubics), ty, kf2, i)

\* Motion::new, `.expect("Cubics!")` and the loop over the cubics
ExpectCubics(m, cubics, ty, kf2, i) ==
    IF ~cubics.ok THEN Panic("Cubics!") ELSE PushCubics(m, cubics.value, ty, kf2, i)

\* Motion::new, one window (kf1, kf2) whose reference values are v1 and v2
ExpandWindow(m, source, i, frame_rate, value_type, ty, sim, v1, v2) ==
    IF v1.panic THEN v1
    ELSE IF v2.panic THEN v2
    ELSE ExpectCubics(m,
                      cubic_approximation(frame_rate,
                                          AnimatedValueNew(v1.value, v2.value, value_type),
                                          source.spring, sim[i + 1]),
                      ty, source.keyframes[i + 2], i)

\* Motion::new, the loop over source.keyframes.windows(2), from window i (from 0)
RECURSIVE ExpandWindows(_, _, _, _, _, _, _)
ExpandWindows(m, source, i, frame_rate, value_type, ty, sim) ==
    IF m.panic \/ i + 2 > Len(source.keyframes) THEN m
    ELSE ExpandWindows(
            ExpandWindow(m, source, i, frame_rate, value_type, ty, sim,
                         reference_value(ty, source.keyframes[i + 1], i),
                         reference_value(ty, source.keyframes[i + 2], i + 1)),
            source, i + 1, frame_rate, value_type, ty, sim)

MotionNewUntagged(source, frame_rate, value_type, ty, sim) ==
    Done([keyframes |-> source.keyframes, ease |-> <<>>])

\* Motion::new
MotionNew(source, frame_rate, value_type, ty, sim) ==
    IF source.spring # None /\ Len(source.keyframes) > 1
    THEN ExpandWindows(Done([keyframes |-> <<source.keyframes[1]>>,
                             ease |-> <<DEFAULT_EASE>>]),
                       source, 0, frame_rate, value_type, ty, sim)
    ELSE Done([keyframes |-> source.keyframes, ease |-> <<>>])

\* Motion::iter / MotionIter::next: the (ease, keyframe) pairs in order
MotionIter(motion) ==
    [idx \in 1..Len(motion.keyframes) |->
        [ease |-> IF idx <= Len(motion.ease) THEN motion.ease[idx] ELSE DEFAULT_EASE,
         keyframe |-> motion.keyframes[idx]]]

----------------------------------------------------------------------------
(* Lowering to Lottie (lottie.rs) *)

IncompatiblePaths(path) == [kind |-> "IncompatiblePaths", path |-> path]

Fixed(v) == [animated |-> 0, fixed |-> v]
Animated(keyframes) == [animated |-> 1, keyframes |-> keyframes]

\* to_lottie_ease: the cubic moved to the unit square, as in and out handles.
\* The transform is the identity for a cubic from (0, 0) to (1, 1), else the
\* translation by -p0 then the scale to the unit square
to_lottie_ease(bez) ==
    LET at(q) ==
            IF bez.p0 = Pt(R(0), R(0)) /\ bez.p3 = Pt(R(1), R(1)) THEN q
            ELSE Pt(RMul(RDiv(R(1), RSub(bez.p3.x, bez.p0.x)), RSub(q.x, bez.p0.x)),
                    RMul(RDiv(R(1), RSub(bez.p3.y, bez.p0.y)), RSub(q.y, bez.p0.y)))
    IN  [in_value |-> at(bez.p2), out_value |-> at(bez.p1)]

\* create_shapevalue, the value for the on-curve elements `on` of the subpath
ShapeValueOf(subpath, on) ==
    [vertices |-> [i \in 1..Len(on) |-> on[i].p],
     in_point |-> [i \in 1..Len(on) |-> <<0, 0>>],
     out_point |-> [i \in 1..Len(on) |-> <<0, 0>>],
     closed |-> IF \E i \in 1..Len(subpath) : subpath[i].kind = "ClosePath" THEN TRUE
                ELSE IF on = <<>> THEN TRUE
                ELSE on[1].p = on[Len(on)].p]

\* create_shapevalue of a polyline subpath: every line is a cubic whose
\* handles are zero
create_shapevalue(subpath) ==
    ShapeValueOf(subpath, SelectSeq(subpath, LAMBDA e : e.kind # "ClosePath"))

\* create_subpath
create_subpath(subpath) ==
    [type |-> "Shape",
     vertices |-> Fixed(create_shapevalue(subpath)),
     direction |-> IF area2(subpath) > 0 THEN 1 ELSE 3]

\* to_lottie_subpath, the static shape: one SubPath per subpath of the frame
StaticSubpaths(first_subpaths) ==
    IF first_subpaths.panic THEN first_subpaths
    ELSE Done(Ok([i \in 1..Len(first_subpaths.value) |->
                     create_subpath(first_subpaths.value[i])]))

\* to_lottie_subpath, the ShapeKeyframe of every (ease, keyframe) of the motion
ShapeKeyframes(items, parts) ==
    IF FirstPanic(parts) # 0 THEN parts[FirstPanic(parts)]
    ELSE Done(Ok(<<
            [type |-> "Shape",
             vertices |-> Animated(
                [k \in 1..Len(items) |->
                    [start_time |-> items[k].keyframe.frame,
                     start_value |-> [j \in 1..Len(parts[k].value) |->
                                         create_shapevalue(parts[k].value[j])],
                     bezier |-> to_lottie_ease(items[k].ease)]]),
             direction |-> None] >>))

\* to_lottie_subpath, the animated shape: `keyframe.subpaths()` of every item
\* of the motion
AnimatedSubpath(motion, overflow_checks) ==
    IF motion.panic THEN motion
    ELSE ShapeKeyframes(MotionIter(motion.value),
                        [k \in 1..Len(motion.value.keyframes) |->
                            KeyframeSubpaths(motion.value.keyframes[k].value,
                                             overflow_checks)])

\* to_lottie_subpath
to_lottie_subpath(path, frame_rate, sim, overflow_checks) ==
    IF Len(path.keyframes) < 2
    THEN StaticSubpaths(KeyframeSubpaths(earliest(path).value, overflow_checks))
    ELSE IF \E k \in 1..Len(path.keyframes) :
                path_commands(path.keyframes[k].value) # path_commands(earliest(path).value)
    THEN Done(Err(IncompatiblePaths(path)))
    ELSE IF Len(path.keyframes) > 2 THEN Panic("TODO: support > 2 path keyframes")
    ELSE AnimatedSubpath(MotionNew(path, frame_rate, "Position", "BezPath", sim),
                         overflow_checks)

\* to_lottie_transform, `start_value` of a keyframe (and the fixed value of
\* scale and position) for the type ty of the keyframe's value
ValueOf(ty, center, v) ==
    CASE ty = "f64" -> <<v>>
      [] ty = "(f64, f64)" -> <<v[1], v[2]>>
      [] ty = "Vec2" -> <<RAdd(center.x, v.x), RAdd(center.y, v.y)>>

\* to_lottie_transform, Value::Animated of one property: the
\* MultiDimensionalKeyframe of every (ease, keyframe) of the motion
AnimatedProperty(motion, ty, center) ==
    IF motion.panic THEN motion
    ELSE Done(Animated(
            [k \in 1..Len(motion.value.keyframes) |->
                [start_time |-> MotionIter(motion.value)[k].keyframe.frame,
                 start_value |-> ValueOf(ty, center,
                                         MotionIter(motion.value)[k].keyframe.value),
                 bezier |-> to_lottie_ease(MotionIter(motion.value)[k].ease)]]))

\* one transform property of to_lottie_transform: Value::Fixed of the earliest
\* value when the series is static, else the keyframes of its motion
TransformProperty(kfd, frame_rate, value_type, ty, sim, center) ==
    IF ~is_animated(kfd)
    THEN Done(IF ty = "f64" THEN Fixed(earliest(kfd).value)
              ELSE Fixed(ValueOf(ty, center, earliest(kfd).value)))
    ELSE AnimatedProperty(MotionNew(kfd, frame_rate, value_type, ty, sim), ty, center)

\* to_lottie_transform, the Transform of the three properties
TransformOfProperties(group, rotation, scale, position) ==
    IF rotation.panic THEN rotation
    ELSE IF scale.panic THEN scale
    ELSE IF position.panic THEN position
    ELSE Done([type |-> "Transform",
               anchor_point |-> Fixed(<<group.center.x, group.center.y>>),
               rotation |-> rotation.value,
               scale |-> scale.value,
               position |-> position.value])

\* to_lottie_transform
to_lottie_transform(group, frame_rate, sim) ==
    TransformOfProperties(
        group,
        TransformProperty(group.rotate, frame_rate, "Rotation", "f64", sim, group.center),
        TransformProperty(group.scale, frame_rate, "Scale", "(f64, f64)", sim, group.center),
        TransformProperty(group.translate, frame_rate, "Position", "Vec2", sim,
                          group.center))

\* the Fill item of to_lottie_group
FillOf(group) ==
    [type |-> "Fill",
     color |-> IF group.fill = None THEN None
               ELSE Fixed(<<Frac(group.fill.some[1], 255), Frac(group.fill.some[2], 255),
                            Frac(group.fill.some[3], 255)>>)]

\* the first outcome in a sequence of outcomes that is a panic or an error
FirstFailure(outcomes) ==
    Position([k \in 1..Len(outcomes) |-> outcomes[k].panic \/ ~outcomes[k].value.ok])

\* to_lottie_group, `.map(|g| vec![AnyShape::Group(g)])`
AsItems(g) == IF g.panic \/ ~g.value.ok THEN g ELSE Done(Ok(<<g.value.value>>))

GroupOfItemsSwapped(group, lowered, transform) ==
    IF FirstFailure(lowered) # 0 THEN lowered[FirstFailure(lowered)]
    ELSE IF transform.panic THEN transform
    ELSE Done(Ok([type |-> "Group",
                  items |-> Concat([c \in 1..Len(lowered) |-> lowered[c].value.value])
                            \o <<transform.value, FillOf(group)>>]))

\* to_lottie_group, the `?` on the children and the Group of the items, the
\* fill and the transform
GroupOfItems(group, lowered, transform) ==
    IF FirstFailure(lowered) # 0 THEN lowered[FirstFailure(lowered)]
    ELSE IF transform.panic THEN transform
    ELSE Done(Ok([type |-> "Group",
                  items |-> Concat([c \in 1..Len(lowered) |-> lowered[c].value.value])
                            \o <<FillOf(group), transform.value>>]))

\* to_lottie_group
RECURSIVE to_lottie_group(_, _, _, _)
to_lottie_group(group, frame_rate, sim, overflow_checks) ==
    GroupOfItems(group,
                 [c \in 1..Len(group.children) |->
                     IF group.children[c].type = "Group"
                     THEN AsItems(to_lottie_group(group.children[c].group, frame_rate, sim,
                                                  overflow_checks))
                     ELSE to_lottie_subpath(group.children[c].shape, frame_rate, sim,
                                            overflow_checks)],
                 to_lottie_transform(group, frame_rate, sim))

\* from_animation, the Lottie around the root group
LottieOf(anim, root_group) ==
    IF root_group.panic \/ ~root_group.value.ok THEN root_group
    ELSE Done(Ok([in_point |-> R(0),
                  out_point |-> anim.frames,
                  frame_rate |-> anim.frame_rate,
                  width |-> anim.width,
                  height |-> anim.height,
                  layers |-> << [type |-> "Shape",
                                 in_point |-> R(0),
                                 out_point |-> R(60),
                                 shapes |-> <<root_group.value.value>>] >>]))

\* FromAnimation for Lottie: from_animation
from_animation(anim, sim, overflow_checks) ==
    LottieOf(anim, to_lottie_group(anim.root, anim.frame_rate, sim, overflow_checks))

----------------------------------------------------------------------------
(* Lowering to an Android Vector Drawable (android.rs)                     *)
(*                                                                         *)
(* Path data is a sequence of tokens, one for an element of the path; a   *)
(* token says whether a space is written before it.  The fill is a        *)
(* sequence of characters.                                                 *)

\* BezPath::to_svg: a space before every element but the first
to_svg(bez) == [i \in 1..Len(bez) |-> [space |-> i > 1, el |-> bez[i]]]

HexDigits ==
    <<"0", "1", "2", "3", "4", "5", "6", "7", "8", "9", "a", "b", "c", "d", "e", "f">>

\* `{:02x}` of a u8
Hex02(b) == <<HexDigits[(b \div 16) + 1], HexDigits[(b % 16) + 1]>>

\* to_avd_path with the keyframe of the path data picked by the caller
AvdPathOf(fill, value) ==
    [fill |-> IF fill = None THEN <<"#", "0", "0", "0", "0", "0", "0">>
              ELSE <<"#">> \o Hex02(fill.some[1]) \o Hex02(fill.some[2])
                       \o Hex02(fill.some[3]),
     path |-> to_svg(value)]

\* to_avd_path reading the latest keyframe instead of the earliest
to_avd_pathLatest(fill, shape) ==
    AvdPathOf(fill, shape.keyframes[Len(shape.keyframes)].value)

\* to_avd_path
to_avd_path(fill, shape) == AvdPathOf(fill, earliest(shape).value)

\* to_avd_group, one turn of the loop where every shape opens a path of its own
AvdPushUnglued(children, fill, next, sub) ==
    IF next.type = "Group" THEN Append(children, [type |-> "Group", group |-> sub])
    ELSE Append(children, [type |-> "Path", path |-> to_avd_path(fill, next.shape)])

\* to_avd_group, one turn of the loop: sub is the lowered child when next is a Group
AvdPush(children, fill, next, sub) ==
    IF next.type = "Group" THEN Append(children, [type |-> "Group", group |-> sub])
    ELSE IF children # <<>> /\ children[Len(children)].type = "Path"
         THEN [children EXCEPT
                 ![Len(children)].path.path = @ \o to_svg(earliest(next.shape).value)]
         ELSE Append(children, [type |-> "Path", path |-> to_avd_path(fill, next.shape)])

RECURSIVE to_avd_group(_)
RECURSIVE AvdChildren(_, _)
\* to_avd_group, the children after the first n turns of the loop
AvdChildren(group, n) ==
    IF n = 0 THEN <<>>
    ELSE AvdPush(AvdChildren(group, n - 1), group.fill, group.children[n],
                 IF group.children[n].type = "Group"
                 THEN to_avd_group(group.children[n].group) ELSE None)

\* to_avd_group
to_avd_group(group) ==
    [pivot |-> group.center, children |-> AvdChildren(group, Len(group.children))]

\* FromAnimation for AnimatedVectorDrawable: from_animation
avd_from_animation(anim) ==
    Ok([width |-> anim.width, height |-> anim.height, drawable |-> to_avd_group(anim.root)])
----------------------------------------------------------------------------
(* Text (command.rs, ligate.rs)                                            *)
(*                                                                         *)
(* A word of a command is a string without whitespace; Chars gives its    *)
(* characters, which is what the character classes of the regular         *)
(* expressions, the splitting of locations and the parsing of numbers     *)
(* look at.                                                                *)

Chars(word) ==
    CASE word = "" -> <<>>
      [] word = "x" -> <<"x">>
      [] word = "o" -> <<"o">>
      [] word = "ok" -> <<"o", "k">>
      [] word = "okk" -> <<"o", "k", "k">>
      [] word = "xo" -> <<"x", "o">>
      [] word = "xk" -> <<"x", "k">>
      [] word = "kq" -> <<"k", "q">>
      [] word = "a-b" -> <<"a", "-", "b">>
      [] word = "0xE5CA" -> <<"0", "x", "E", "5", "C", "A">>
      [] word = "0xFFFF" -> <<"0", "x", "F", "F", "F", "F">>
      [] word = "0xZZ" -> <<"0", "x", "Z", "Z">>
      [] word = "0" -> <<"0">>
      [] word = "90" -> <<"9", "0">>
      [] word = "100" -> <<"1", "0", "0">>
      [] word = "x9" -> <<"x", "9">>
      [] word = "standard" -> <<"s", "t", "a", "n", "d", "a", "r", "d">>
      [] word = "smooth-spatial" ->
            <<"s", "m", "o", "o", "t", "h", "-", "s", "p", "a", "t", "i", "a", "l">>
      [] word = "smooth-non-spatial" ->
            <<"s", "m", "o", "o", "t", "h", "-", "n", "o", "n", "-",
              "s", "p", "a", "t", "i", "a", "l">>
      [] word = "expressive-spatial" ->
            <<"e", "x", "p", "r", "e", "s", "s", "i", "v", "e", "-",
              "s", "p", "a", "t", "i", "a", "l">>
      [] word = "expressive-non-spatial" ->
            <<"e", "x", "p", "r", "e", "s", "s", "i", "v", "e", "-", "n", "o", "n", "-",
              "s", "p", "a", "t", "i", "a", "l">>
      [] word = "Standard" -> <<"S", "t", "a", "n", "d", "a", "r", "d">>
      [] word = "fancy" -> <<"f", "a", "n", "c", "y">>
      [] word = "fancy!" -> <<"f", "a", "n", "c", "y", "!">>
      [] word = "FILL:0" -> <<"F", "I", "L", "L", ":", "0">>
      [] word = "FILL:1" -> <<"F", "I", "L", "L", ":", "1">>
      [] word = "FILL" -> <<"F", "I", "L", "L">>
      [] word = "FILL:x" -> <<"F", "I", "L", "L", ":", "x">>
      [] word = "TOOLONG:1" -> <<"T", "O", "O", "L", "O", "N", "G", ":", "1">>
      [] word = "wght:100,FILL:1" ->
            <<"w", "g", "h", "t", ":", "1", "0", "0", ",", "F", "I", "L", "L", ":", "1">>

DigitChars == <<"0", "1", "2", "3", "4", "5", "6", "7", "8", "9">>
LowerChars ==
    {"a", "b", "c", "d", "e", "f", "g", "h", "i", "j", "k", "l", "m",
     "n", "o", "p", "q", "r", "s", "t", "u", "v", "w", "x", "y", "z"}
UpperChars ==
    {"A", "B", "C", "D", "E", "F", "G", "H", "I", "J", "K", "L", "M",
     "N", "O", "P", "Q", "R", "S", "T", "U", "V", "W", "X", "Y", "Z"}

\* the class \d
IsDigit(c) == \E d \in 1..Len(DigitChars) : DigitChars[d] = c
\* the class \w
IsWordChar(c) == IsDigit(c) \/ c \in LowerChars \/ c \in UpperChars \/ c = "_"

\* the value of a digit in a radix, None when the character is no digit of it
DigitValue(c, radix) ==
    LET lower == <<"a", "b", "c", "d", "e", "f">>
        upper == <<"A", "B", "C", "D", "E", "F">>
        v == IF IsDigit(c) THEN (CHOOSE d \in 1..10 : DigitChars[d] = c) - 1
             ELSE IF \E d \in 1..6 : lower[d] = c THEN 9 + CHOOSE d \in 1..6 : lower[d] = c
             ELSE IF \E d \in 1..6 : upper[d] = c THEN 9 + CHOOSE d \in 1..6 : upper[d] = c
             ELSE radix
    IN  IF v < radix THEN [some |-> v] ELSE None

\* the number the first n characters spell in a radix
RECURSIVE ValueUpTo(_, _, _)
ValueUpTo(chars, radix, n) ==
    IF n = 0 THEN 0
    ELSE ValueUpTo(chars, radix, n - 1) * radix + DigitValue(chars[n], radix).some

\* u32::from_str_radix(_, 16) and the parsing of a number written in digits:
\* an error for no character and for a character that is no digit (no word
\* of the model spells a number that a u32 cannot hold)
ParseDigits(chars, radix) ==
    IF chars = <<>> \/ \E i \in 1..Len(chars) : DigitValue(chars[i], radix) = None
    THEN Err("ParseError")
    ELSE Ok(ValueUpTo(chars, radix, Len(chars)))

\* str::split: the pieces between the occurrences of a separator
RECURSIVE Split(_, _)
Split(chars, sep) ==
    IF \A i \in 1..Len(chars) : chars[i] # sep THEN <<chars>>
    ELSE LET at == CHOOSE i \in 1..Len(chars) :
                        chars[i] = sep /\ \A j \in 1..(i - 1) : chars[j] # sep
         IN  <<SubSeq(chars, 1, at - 1)>> \o Split(SubSeq(chars, at + 1, Len(chars)), sep)

----------------------------------------------------------------------------
(* The icon font of the model and name resolution (ligate.rs)             *)

\* the code point of a character
CodePoint(c) ==
    CASE c = "o" -> 111 [] c = "k" -> 107 [] c = "x" -> 120 [] c = "q" -> 113
      [] c = "a" -> 97 [] c = "b" -> 98 [] c = "-" -> 45
      [] c = "0" -> 48 [] c = "5" -> 53
      [] c = "A" -> 65 [] c = "C" -> 67 [] c = "E" -> 69 [] c = "F" -> 70 [] c = "Z" -> 90

\* the character map of the font: code point 0xE5CA is the icon check_circle
Charmap ==
    [cp \in {111, 107, 120, 48, 58826} |->
        CASE cp = 111 -> "g_o" [] cp = 107 -> "g_k" [] cp = 120 -> "g_x"
          [] cp = 48 -> "g_zero" [] cp = 58826 -> "check_circle"]

\* Charmap::map
CharmapMap(cp) == IF cp \in DOMAIN Charmap THEN [some |-> Charmap[cp]] ELSE None

Ligature(components, ligature_glyph) ==
    [components |-> components, glyph |-> ligature_glyph]

\* the GSUB lookups of the font, in font order: the set of a covered first
\* glyph is at the index of the glyph in the coverage; a ligature lists the
\* components after the first.  "okk" stands before "ok", and the extension
\* lookup repeats "ok" with another output.
GsubLookups ==
    << [type |-> "Single", subtables |-> <<>>],
       [type |-> "Ligature",
        subtables |->
            << [coverage |-> <<"g_o">>,
                ligature_sets |->
                    << << Ligature(<<"g_k", "g_k">>, "ring"),
                          Ligature(<<"g_k">>, "check_circle") >> >>] >>],
       [type |-> "Extension",
        subtables |->
            << [type |-> "Single"],
               [type |-> "Ligature",
                extension |->
                    [coverage |-> <<"g_x", "g_o">>,
                     ligature_sets |->
                        << << Ligature(<<"g_o">>, "square"), Ligature(<<>>, "morph"),
                              Ligature(<<"g_k">>, "no_outline") >>,
                           << Ligature(<<"g_k">>, "dots") >> >>]] >>] >>

NoGlyphIds(text) == [kind |-> "NoGlyphIds", text |-> text]
UnmappedCharError(c) == [kind |-> "UnmappedCharError", char |-> c]
NoLigature(name) == [kind |-> "NoLigature", name |-> name]

\* resolve_ligature, `gids.iter().zip(liga.component_glyph_ids()).all(..)`:
\* zip stops at the shorter of the two
ComponentsMatch(rest, components) ==
    \A i \in 1..Len(rest) : i > Len(components) \/ rest[i] = components[i]

\* resolve_ligature without the comparison of the component count
LigatureFitsAnyCount(liga, rest) == ComponentsMatch(rest, liga.components)

\* resolve_ligature, the test of one ligature of the set
LigatureFits(liga, rest) ==
    /\ Len(liga.components) + 1 = Len(rest) + 1
    /\ ComponentsMatch(rest, liga.components)

\* resolve_ligature
resolve_ligature(liga, text, gids) ==
    IF gids = <<>> THEN Err(NoGlyphIds(text))
    ELSE IF \A i \in 1..Len(liga.coverage) : liga.coverage[i] # gids[1] THEN Ok(None)
    ELSE LET set == liga.ligature_sets[CHOOSE i \in 1..Len(liga.coverage) :
                                           liga.coverage[i] = gids[1]]
             fits == [k \in 1..Len(set) |-> LigatureFits(set[k], Tail(gids))]
         IN  IF Position(fits) = 0 THEN Ok(None)
             ELSE Ok([some |-> set[Position(fits)].glyph])

\* icon_name_to_gid, the ligature subtables the loops visit, in the order of the visits
LigatureSubtables(lookups) ==
    Concat([l \in 1..Len(lookups) |->
              CASE lookups[l].type = "Ligature" -> lookups[l].subtables
                [] lookups[l].type = "Extension" ->
                      LET kept == SelectSeq(lookups[l].subtables,
                                            LAMBDA t : t.type = "Ligature")
                      IN  [k \in 1..Len(kept) |-> kept[k].extension]
                [] OTHER -> <<>>])

\* icon_name_to_gid, the loops: the first subtable that fails or finds a glyph ends them
FirstResolved(results, name) ==
    LET ends == [k \in 1..Len(results) |-> ~results[k].ok \/ results[k].value # None]
    IN  IF Position(ends) = 0 THEN Err(NoLigature(name))
        ELSE IF ~results[Position(ends)].ok THEN results[Position(ends)]
        ELSE Ok(results[Position(ends)].value.some)

\* icon_name_to_gid, after the characters are mapped
ResolveGids(lookups, name, gids) ==
    FirstResolved([k \in 1..Len(LigatureSubtables(lookups)) |->
                      resolve_ligature(LigatureSubtables(lookups)[k], name, gids)],
                  name)

\* icon_name_to_gid
icon_name_to_gid(name) ==
    LET mapped == [i \in 1..Len(Chars(name)) |-> CharmapMap(CodePoint(Chars(name)[i]))]
        missing == [i \in 1..Len(mapped) |-> mapped[i] = None]
    IN  IF Position(missing) # 0 THEN Err(UnmappedCharError(Chars(name)[Position(missing)]))
        ELSE ResolveGids(GsubLookups, name, [i \in 1..Len(mapped) |-> mapped[i].some])

\* the names handed to icon_name_to_gid directly; the empty name is among them
NameChoices == {"", "x", "o", "ok", "okk", "xo", "xk", "kq", "a-b", "0xE5CA", "0xFFFF", "0xZZ"}

----------------------------------------------------------------------------
(* Commands (command.rs)                                                   *)
(*                                                                         *)
(* A command is the word after `^`, the icon name that stands before the  *)
(* colon, and the words after the colon; the words are separated by       *)
(* whitespace, which \s+ and \s* match.                                    *)

\* \w+, \d+, [\w-]+ and \S+ on a word
IsIdent(word) ==
    Chars(word) # <<>> /\ \A i \in 1..Len(Chars(word)) : IsWordChar(Chars(word)[i])
IsInt(word) == Chars(word) # <<>> /\ \A i \in 1..Len(Chars(word)) : IsDigit(Chars(word)[i])
IsSpringWord(word) ==
    /\ Chars(word) # <<>>
    /\ \A i \in 1..Len(Chars(word)) : IsWordChar(Chars(word)[i]) \/ Chars(word)[i] = "-"
IsNonSpace(word) == Chars(word) # <<>>

Captures(spring, vary_from, vary_to) ==
    [some |-> [spring |-> spring, vary_from |-> vary_from, vary_to |-> vary_to]]

\* SPRING + VARIATION + "$" on the words that follow the motion
TailCaptures(rest) ==
    CASE rest = <<>> -> Captures(None, None, None)
      [] Len(rest) = 2 /\ rest[1] = "using" /\ IsSpringWord(rest[2]) ->
            Captures([some |-> rest[2]], None, None)
      [] Len(rest) = 4 /\ rest[1] = "vary" /\ IsNonSpace(rest[2]) /\ rest[3] = "to"
                       /\ IsNonSpace(rest[4]) ->
            Captures(None, [some |-> rest[2]], [some |-> rest[4]])
      [] Len(rest) = 6 /\ rest[1] = "using" /\ IsSpringWord(rest[2])
                       /\ rest[3] = "vary" /\ IsNonSpace(rest[4]) /\ rest[5] = "to"
                       /\ IsNonSpace(rest[6]) ->
            Captures([some |-> rest[2]], [some |-> rest[4]], [some |-> rest[6]])
      [] OTHER -> None

\* ANIMATE on the start of a command
AnimateMatches(cmd) == cmd.head = "Animate" /\ IsIdent(cmd.ident)

\* the regular expression `rotate`: the motion is captured with the tail
RotateCaptures(cmd) ==
    IF /\ AnimateMatches(cmd) /\ Len(cmd.words) >= 3
       /\ cmd.words[1] = "rotate" /\ IsInt(cmd.words[2]) /\ cmd.words[3] = "degrees"
       /\ TailCaptures(SubSeq(cmd.words, 4, Len(cmd.words))) # None
    THEN [some |-> [name |-> cmd.ident, motion |-> <<cmd.words[2]>>,
                    tail |-> TailCaptures(SubSeq(cmd.words, 4, Len(cmd.words))).some]]
    ELSE None

\* the regular expression `scale`
ScaleCaptures(cmd) ==
    IF /\ AnimateMatches(cmd) /\ Len(cmd.words) >= 4
       /\ cmd.words[1] = "scale" /\ IsInt(cmd.words[2]) /\ cmd.words[3] = "to"
       /\ IsInt(cmd.words[4])
       /\ TailCaptures(SubSeq(cmd.words, 5, Len(cmd.words))) # None
    THEN [some |-> [name |-> cmd.ident, motion |-> <<cmd.words[2], cmd.words[4]>>,
                    tail |-> TailCaptures(SubSeq(cmd.words, 5, Len(cmd.words))).some]]
    ELSE None

\* the alternatives of the group (pulse|pulse-whole|twirl|twirl-whole) of `only_name`
OnlyNameKeywords == {"pulse", "pulse-whole", "twirl", "twirl-whole"}

\* the regular expression `only_name`: the optional group takes a keyword when
\* the rest matches after it
OnlyNameCaptures(cmd) ==
    IF ~AnimateMatches(cmd) THEN None
    ELSE IF /\ cmd.words # <<>> /\ cmd.words[1] \in OnlyNameKeywords
            /\ TailCaptures(Tail(cmd.words)) # None
    THEN [some |-> [name |-> cmd.ident, motion |-> <<cmd.words[1]>>,
                    tail |-> TailCaptures(Tail(cmd.words)).some]]
    ELSE IF TailCaptures(cmd.words) # None
    THEN [some |-> [name |-> cmd.ident, motion |-> <<>>,
                    tail |-> TailCaptures(cmd.words).some]]
    ELSE None

UnrecognizedCommand == [kind |-> "UnrecognizedCommand"]

\* NameAndVariation::from_captures that reads the spring name without judging it
from_capturesAnySpring(captures) ==
    Ok([icon_name |-> captures.name,
        spring |-> IF captures.tail.spring = None
                      \/ ~SpringFromStr(captures.tail.spring.some).ok
                   THEN None ELSE SpringFromStr(captures.tail.spring.some).value,
        vary_from |-> captures.tail.vary_from,
        vary_to |-> captures.tail.vary_to])

\* NameAndVariation::from_captures
from_captures(captures) ==
    IF captures.tail.spring # None /\ ~SpringFromStr(captures.tail.spring.some).ok
    THEN Err([kind |-> "UnrecognizedSpring"])
    ELSE Ok([icon_name |-> captures.name,
             spring |-> IF captures.tail.spring = None THEN None
                        ELSE SpringFromStr(captures.tail.spring.some).value,
             vary_from |-> captures.tail.vary_from,
             vary_to |-> captures.tail.vary_to])

\* get_f64 on a capture of \d+
get_f64(word) ==
    IF ParseDigits(Chars(word), 10).ok THEN Ok(R(ParseDigits(Chars(word), 10).value))
    ELSE Err([kind |-> "InvalidF64"])

\* the Command of a kind
CommandOf(kind, nv, args) ==
    IF ~nv.ok THEN nv
    ELSE IF \E i \in 1..Len(args) : ~args[i].ok
    THEN args[Position([i \in 1..Len(args) |-> ~args[i].ok])]
    ELSE Ok([kind |-> kind, nv |-> nv.value, args |-> [i \in 1..Len(args) |-> args[i].value]])

\* Command::parse, the match on the keyword that `only_name` captured
KeywordCommand(captures) ==
    LET command == IF captures.motion = <<>> THEN "none" ELSE captures.motion[1]
    IN  CASE command = "none" -> CommandOf("None", from_captures(captures), <<>>)
          [] command = "pulse" -> CommandOf("PulseParts", from_captures(captures), <<>>)
          [] command = "pulse-whole" -> CommandOf("PulseWhole", from_captures(captures), <<>>)
          [] command = "twirl" -> CommandOf("TwirlParts", from_captures(captures), <<>>)
          [] command = "twirl-whole" -> CommandOf("TwirlWhole", from_captures(captures), <<>>)
          [] OTHER -> IF from_captures(captures).ok THEN Err(UnrecognizedCommand)
                      ELSE from_captures(captures)

\* Command::parse
CommandParse(cmd) ==
    IF RotateCaptures(cmd) # None
    THEN CommandOf("RotateDegrees", from_captures(RotateCaptures(cmd).some),
                   <<get_f64(RotateCaptures(cmd).some.motion[1])>>)
    ELSE IF ScaleCaptures(cmd) # None
    THEN CommandOf("ScaleFromTo", from_captures(ScaleCaptures(cmd).some),
                   <<get_f64(ScaleCaptures(cmd).some.motion[1]),
                     get_f64(ScaleCaptures(cmd).some.motion[2])>>)
    ELSE IF OnlyNameCaptures(cmd) # None
    THEN KeywordCommand(OnlyNameCaptures(cmd).some)
    ELSE Err(UnrecognizedCommand)

\* parse_location, one `tag:value` of the list
ParseAxisPosition(kv) ==
    IF Len(Split(kv, ":")) # 2 THEN Err([kind |-> "InvalidLocation"])
    ELSE IF ~(Len(Split(kv, ":")[1]) \in 1..4) THEN Err([kind |-> "InvalidTag"])
    ELSE IF ~ParseDigits(Split(kv, ":")[2], 10).ok THEN Err([kind |-> "InvalidF64"])
    ELSE Ok(<<Split(kv, ":")[1], ParseDigits(Split(kv, ":")[2], 10).value>>)

\* `.collect::<Result<_, _>>()`: the first error, or all the values
CollectResults(results) ==
    IF Position([i \in 1..Len(results) |-> ~results[i].ok]) # 0
    THEN results[Position([i \in 1..Len(results) |-> ~results[i].ok])]
    ELSE Ok([i \in 1..Len(results) |-> results[i].value])

\* parse_location
parse_location(raw) ==
    CollectResults([i \in 1..Len(Split(Chars(raw), ",")) |->
                        ParseAxisPosition(Split(Chars(raw), ",")[i])])

\* Command::variation, one side
VaryLocation(word) == IF word = None THEN Ok(<<>>) ELSE parse_location(word.some)

\* Command::variation
variation(command) ==
    IF ~VaryLocation(command.nv.vary_from).ok THEN VaryLocation(command.nv.vary_from)
    ELSE IF ~VaryLocation(command.nv.vary_to).ok THEN VaryLocation(command.nv.vary_to)
    ELSE Ok(<<VaryLocation(command.nv.vary_from).value,
              VaryLocation(command.nv.vary_to).value>>)

\* the axis of the font: FILL from 0 to 1, default 0
FillTag == <<"F", "I", "L", "L">>

\* AxisCollection::location: the last position given for FILL, clamped to the
\* range of the axis, the default when there is none; other tags are ignored
AxesLocation(user) ==
    LET given == SelectSeq(user, LAMBDA pos : pos[1] = FillTag)
    IN  IF given = <<>> THEN 0
        ELSE IF given[Len(given)][2] >= 1 THEN 1 ELSE 0

\* GlyphShape::new: NoOutline for a glyph without an outline
GlyphShapeTryNew(gid, start, end) ==
    IF gid \notin GlyphNames THEN Err([kind |-> "NoOutline", gid |-> gid])
    ELSE Ok(GlyphShapeNew(gid, start, end))

\* parse_command after the icon is resolved
ShapeOfCommand(command, gid, raw) ==
    IF ~gid.ok THEN Err([kind |-> "IconNameError", error |-> gid.error])
    ELSE IF ~raw.ok THEN raw
    ELSE IF ~GlyphShapeTryNew(gid.value, AxesLocation(raw.value[1]),
                              [some |-> AxesLocation(raw.value[2])]).ok
    THEN GlyphShapeTryNew(gid.value, AxesLocation(raw.value[1]),
                          [some |-> AxesLocation(raw.value[2])])
    ELSE Ok([command |-> command,
             glyph_shape |-> GlyphShapeTryNew(gid.value, AxesLocation(raw.value[1]),
                                              [some |-> AxesLocation(raw.value[2])]).value])

\* parse_command after Command::parse
ResolveCommand(command) ==
    IF ~command.ok THEN command
    ELSE ShapeOfCommand(command.value, icon_name_to_gid(command.value.nv.icon_name),
                        variation(command.value))

\* parse_command
parse_command(cmd) == ResolveCommand(CommandParse(cmd))

\* the icon of the command line of iconimation-cli
cli_icon(icon) ==
    IF Len(Chars(icon)) >= 2 /\ SubSeq(Chars(icon), 1, 2) = <<"0", "x">>
    THEN IF ~ParseDigits(SubSeq(Chars(icon), 3, Len(Chars(icon))), 16).ok
         THEN Panic("unwrap of a ParseIntError")
         ELSE IF CharmapMap(ParseDigits(SubSeq(Chars(icon), 3, Len(Chars(icon))), 16).value)
                    = None
         THEN Panic("No gid for 0x")
         ELSE Done(CharmapMap(ParseDigits(SubSeq(Chars(icon), 3, Len(Chars(icon))),
                                          16).value).some)
    ELSE IF ~icon_name_to_gid(icon).ok THEN Panic("Unable to resolve to a glyph id")
    ELSE Done(icon_name_to_gid(icon).value)

\* the codepoint of the command line of the first front end (src/main.rs)
codepoint_icon(codepoint) ==
    IF ~(Len(Chars(codepoint)) >= 2 /\ SubSeq(Chars(codepoint), 1, 2) = <<"0", "x">>)
    THEN Panic("Codepoint must start with 0x")
    ELSE cli_icon(codepoint)

\* the words a command can end in: a spring and a variation, or their lack
UsingChoices ==
    {<<>>, <<"using">>}
    \cup {<<"using", name>> : name \in SpringNames \cup {"fancy", "Standard", "fancy!"}}
VaryChoices ==
    {<<>>, <<"vary", "FILL:0">>}
    \cup {<<"vary", from, "to", to>> :
            from \in {"FILL:0", "FILL:1", "FILL", "TOOLONG:1", "wght:100,FILL:1"},
            to \in {"FILL:1", "FILL:x"}}
MotionChoices ==
    {<<>>, <<"none">>, <<"pulse">>, <<"pulse-whole">>, <<"twirl">>, <<"twirl-whole">>,
     <<"wiggle">>, <<"rotate", "90", "degrees">>, <<"rotate", "x9", "degrees">>,
     <<"rotate", "90">>, <<"scale", "0", "to", "100">>, <<"scale", "100", "to", "x9">>}
IdentChoices == {"x", "ok", "xk", "kq", "a-b", "0xE5CA"}

\* the commands handed to parse_command: the clauses in the order of the
\* grammar, and two that are not of the grammar at all
CommandChoices ==
    {[head |-> "Animate", ident |-> ident, words |-> motion \o using \o vary] :
        ident \in IdentChoices, motion \in MotionChoices,
        using \in UsingChoices, vary \in VaryChoices}
    \cup {[head |-> "animate", ident |-> "x", words |-> <<"pulse">>],
          [head |-> "Animate", ident |-> "x",
           words |-> <<"vary", "FILL:0", "to", "FILL:1", "using", "standard">>]}

----------------------------------------------------------------------------
(* Inputs of the keyframe operations *)

FrameStep == 12
FrameChoices == {R(i * FrameStep) : i \in 0..MaxFrameIdx}

RECURSIVE SeqsUpTo(_, _)
SeqsUpTo(S, n) ==
    IF n = 0 THEN {<<>>}
    ELSE LET shorter == SeqsUpTo(S, n - 1)
         IN  shorter \cup {Append(s, e) : s \in {t \in shorter : Len(t) = n - 1}, e \in S}

\* the value of the i-th entry of a list is i, so that every entry is told apart
ListChoices ==
    {[i \in 1..Len(fs) |-> <<fs[i], i>>] : fs \in SeqsUpTo(FrameChoices, MaxLen)}

\* the value of a pushed keyframe differs from every list value
PushedValue == 0

----------------------------------------------------------------------------
(* Inputs of the pipeline *)

SpringChoices == {None} \cup {SpringFromStr(name).value : name \in SpringNames}

\* the arguments `rotate INT degrees` and `scale INT to INT` can carry
DegreeChoices == {R(0), R(90), R(360)}
ScaleChoices == {R(0), R(100)}

PlanChoices ==
    {Plan(kind, <<>>, spring) :
        kind \in {"None", "TwirlWhole", "TwirlParts", "PulseWhole", "PulseParts"},
        spring \in SpringChoices}
    \cup {Plan("RotateDegrees", <<d>>, spring) : d \in DegreeChoices, spring \in SpringChoices}
    \cup {Plan("ScaleFromTo", <<a, b>>, spring) :
            a \in ScaleChoices, b \in ScaleChoices, spring \in SpringChoices}

\* total frame counts handed to twirl and pulse directly
FrameCountChoices == {R(1), R(7), R(60)}

\* the children a hand-built group is made of: a shape with two keyframes, a
\* static shape and a group that holds a shape
MixedChild(name) ==
    CASE name = "moving" ->
            ElementShape(for_glyph(AnimationNew.frames, GlyphShapeNew("square", 0, [some |-> 1])))
      [] name = "static" ->
            ElementShape(for_glyph(AnimationNew.frames, GlyphShapeNew("morph", 1, None)))
      [] name = "group" ->
            ElementGroup([GroupDefault EXCEPT
                            !.fill = [some |-> nth_group_color(1)],
                            !.children =
                                <<ElementShape(for_glyph(AnimationNew.frames,
                                                         GlyphShapeNew("dots", 0, None)))>>])

\* groups of up to MaxChildren children, shapes and groups in every order
MixedGroups ==
    {[GroupDefault EXCEPT !.fill = fill,
                          !.children = [i \in 1..Len(names) |-> MixedChild(names[i])]] :
        names \in SeqsUpTo({"moving", "static", "group"}, MaxChildren),
        fill \in {None, [some |-> nth_group_color(0)]}}

\* the subpaths group_parts classifies for a glyph at a location
GlyphSubpaths(gid, location) ==
    [i \in 1..Len(KeyframedSubpaths(for_glyph(AnimationNew.frames,
                                              GlyphShapeNew(gid, location, None)),
                                    FALSE).value) |->
        earliest(KeyframedSubpaths(for_glyph(AnimationNew.frames,
                                             GlyphShapeNew(gid, location, None)),
                                   FALSE).value[i]).value]

\* a closed subpath of lines drawn the other way round: from its last point
\* back to its first
ReverseSubpath(bez) ==
    [i \in 1..Len(bez) |->
        IF i = Len(bez) THEN bez[i]
        ELSE [bez[Len(bez) - i] EXCEPT !.kind = bez[i].kind]]

\* the subpaths with the r-th of them reversed
ReversedAt(paths, r) ==
    [i \in 1..Len(paths) |-> IF i = r THEN ReverseSubpath(paths[i]) ELSE paths[i]]

\* a series has at most three keyframes, hence two windows to simulate
SimulatedWindows == 2
SimulationChoices ==
    [1..SimulatedWindows -> {[some |-> k] : k \in 2..MaxEquilibriumFrame}]

\* the springs that are simulated: the presets and the undamped spring of
\* Spring::new(0.0, 380.0)
SimulatedSprings ==
    {SpringFromStr(name).value : name \in SpringNames} \cup {SpringNew(R(0), R(380)).value}

\* start values of a simulated animation: 0, 100 and NaN
ValueChoices == {R(0), R(100), [n |-> 0, d |-> 0]}

SimulationLoops == {"num_frames", "SpringFitter::new", "SpringBetween::spring"}

\* frames per second: the limit of a loop is passed within a few hundred frames
FrameRateChoices(loop) ==
    IF loop = "SpringFitter::new" THEN {Frac(1, 10), Frac(1, 100)} ELSE {R(60), R(1)}

\* the latest frame at which a simulated spring settles
MaxSettleFrame == 7
\* the frames a loop without a time limit is followed for
MaxSimulatedFrames == 8

\* the longest path handed to Keyframe<BezPath>::subpaths
MaxPathLen == 3
\* paths that are empty or begin with a MoveTo: BezPath::from_vec takes any
\* sequence of elements
SplitPaths ==
    {p \in SeqsUpTo({MoveTo(0, 0), LineTo(Unit, 0), ClosePath}, MaxPathLen) :
        p = <<>> \/ p[1].kind = "MoveTo"}
\* the springs handed to cubic_approximation: the simulated ones, an overdamped
\* one and a critically damped one that is no preset
ApproximatedSprings ==
    SimulatedSprings \cup {SpringNewInternal(R(2), R(380)), SpringNewInternal(R(1), R(381))}

\* spring-tagged series handed to Motion::new: two or three keyframes a
\* FrameStep apart with values 0 or 100, a rotation (f64) or a uniform scale
\* ((f64, f64) with both components equal)
MotionValueOf(ty, v) == IF ty = "f64" THEN v ELSE <<v, v>>
MotionSources(ty) ==
    {[keyframes |-> [i \in 1..Len(vs) |->
                        Keyframe(R((i - 1) * FrameStep), MotionValueOf(ty, vs[i]))],
      spring |-> spring] :
        vs \in {w \in SeqsUpTo(ScaleChoices, MaxLen) : Len(w) >= 2},
        spring \in SpringChoices \ {None}}

----------------------------------------------------------------------------
(* Operations. series is the Keyframed under construction (None when the   *)
(* last constructor failed or built something else), lastCall the last     *)
(* call and its result; a constructor starts from no series. pc follows    *)
(* one request through the pipeline: start, shape (GlyphShape made), built *)
(* (IR made) or panicked, lowered (Lottie lowering returned or panicked);  *)
(* avd is the Android Vector Drawable lowered from the same IR.  A call    *)
(* that only computes a value from its input ends the run at returned.     *)

Init ==
    /\ series = None
    /\ lastCall = None
    /\ overflowChecks \in BOOLEAN
    /\ pc = "start"
    /\ plan = None
    /\ glyph = None
    /\ animation = None
    /\ equilibria = None
    /\ lottie = None
    /\ avd = None

DoKeyframedNew ==
    /\ pc = "start"
    /\ series = None
    /\ \E f \in FrameChoices :
        /\ series' = KeyframedNew(f, PushedValue, None)
        /\ lastCall' = None
        /\ UNCHANGED pipeVars

DoTryFrom ==
    /\ pc = "start"
    /\ series = None
    /\ \E value \in ListChoices :
        LET r == try_from(value)
        IN  /\ lastCall' = [op |-> "try_from", input |-> value, result |-> r]
            /\ series' = IF r.ok THEN r.value ELSE None
            /\ UNCHANGED pipeVars

DoPush ==
    /\ pc = "start"
    /\ series # None
    /\ \E f \in FrameChoices :
        /\ series' = push(series, Keyframe(f, PushedValue))
        /\ lastCall' = [op |-> "push", input |-> <<series, Keyframe(f, PushedValue)>>,
                        result |-> Ok(series')]
        /\ UNCHANGED pipeVars

DoAnimatedNew ==
    /\ pc = "start"
    /\ series = None
    /\ \E positions \in ListChoices :
        /\ lastCall' = [op |-> "Animated::new", input |-> positions,
                        result |-> AnimatedNew(positions)]
        /\ series' = None
        /\ UNCHANGED pipeVars

DoTwirl ==
    /\ pc = "start"
    /\ series = None
    /\ \E end \in FrameCountChoices, n \in 0..MaxGroupIdx, spring \in SpringChoices :
        LET r == twirl(spring, R(0), end, n)
        IN  /\ lastCall' = [op |-> "twirl", input |-> <<spring, end, n>>, result |-> r]
            /\ series' = IF r.panic THEN None ELSE r.value
            /\ UNCHANGED pipeVars

DoPulse ==
    /\ pc = "start"
    /\ series = None
    /\ \E end \in FrameCountChoices, n \in 0..MaxGroupIdx, spring \in SpringChoices :
        LET r == pulse(spring, R(0), end, n)
        IN  /\ lastCall' = [op |-> "pulse", input |-> <<spring, end, n>>, result |-> r]
            /\ series' = IF r.panic THEN None ELSE r.value
            /\ UNCHANGED pipeVars

\* GlyphShape::new for a glyph the font has, as parse_command calls it
DoGlyphShapeNew ==
    /\ pc = "start"
    /\ series = None /\ lastCall = None
    /\ \E gid \in GlyphNames, start \in Locations, end \in Locations :
        glyph' = GlyphShapeNew(gid, start, [some |-> end])
    /\ pc' = "shape"
    /\ UNCHANGED <<kfVars, overflowChecks, plan, animation, equilibria, lottie, avd>>

\* Animation::of_icon
DoOfIcon ==
    /\ pc = "shape"
    /\ \E p \in PlanChoices :
        /\ plan' = p
        /\ animation' = of_icon(p, glyph, overflowChecks)
        /\ pc' = IF animation'.panic THEN "panicked" ELSE "built"
    /\ UNCHANGED <<kfVars, overflowChecks, glyph, equilibria, lottie, avd>>

\* Lottie::from_animation
DoLottieFromAnimation ==
    /\ pc = "built"
    /\ \E sim \in SimulationChoices :
        /\ equilibria' = sim
        /\ lottie' = from_animation(animation.value.value, sim, overflowChecks)
    /\ pc' = "lowered"
    /\ UNCHANGED <<kfVars, overflowChecks, plan, glyph, animation, avd>>

\* AnimatedVectorDrawable::from_animation, of the animation Lottie is lowered from
DoAvdFromAnimation ==
    /\ pc \in {"built", "lowered"}
    /\ avd = None
    /\ avd' = avd_from_animation(animation.value.value)
    /\ UNCHANGED <<kfVars, overflowChecks, pc, plan, glyph, animation, equilibria, lottie>>

\* to_avd_group of a group whose children mix shapes and groups
DoToAvdGroup ==
    /\ pc = "start"
    /\ series = None /\ lastCall = None
    /\ \E group \in MixedGroups :
        lastCall' = [op |-> "to_avd_group", input |-> group, result |-> to_avd_group(group)]
    /\ pc' = "returned"
    /\ UNCHANGED callVars

\* the classification of group_parts for the subpaths of a glyph, and for the
\* same subpaths after one of them is reversed
DoClassify ==
    /\ pc = "start"
    /\ series = None /\ lastCall = None
    /\ \E gid \in GlyphNames, location \in Locations :
        \E r \in 1..Len(GlyphSubpaths(gid, location)) :
            lastCall' = [op |-> "filled",
                         input |-> [paths |-> GlyphSubpaths(gid, location), reversed |-> r],
                         result |-> [before |-> Filled(GlyphSubpaths(gid, location)),
                                     after |-> Filled(ReversedAt(GlyphSubpaths(gid, location),
                                                                 r))]]
    /\ pc' = "returned"
    /\ UNCHANGED callVars

\* icon_name_to_gid of a name
DoIconNameToGid ==
    /\ pc = "start"
    /\ series = None /\ lastCall = None
    /\ \E name \in NameChoices :
        lastCall' = [op |-> "icon_name_to_gid", input |-> name,
                     result |-> icon_name_to_gid(name)]
    /\ pc' = "returned"
    /\ UNCHANGED callVars

\* parse_command of a command
DoParseCommand ==
    /\ pc = "start"
    /\ series = None /\ lastCall = None
    /\ \E cmd \in CommandChoices :
        lastCall' = [op |-> "parse_command", input |-> cmd, parsed |-> CommandParse(cmd),
                     result |-> parse_command(cmd)]
    /\ pc' = "returned"
    /\ UNCHANGED callVars

\* the glyph of the icon given on the command line of one of the two front ends
DoResolveIconArgument ==
    /\ pc = "start"
    /\ series = None /\ lastCall = None
    /\ \E icon \in NameChoices :
        \/ lastCall' = [op |-> "iconimation-cli", input |-> icon, result |-> cli_icon(icon)]
        \/ lastCall' = [op |-> "codepoint-cli", input |-> icon,
                        result |-> codepoint_icon(icon)]
    /\ pc' = "returned"
    /\ UNCHANGED callVars

\* the start of a loop that simulates a spring until equilibrium
DoSimulate ==
    /\ pc = "start"
    /\ series = None /\ lastCall = None
    /\ \E loop \in SimulationLoops, spring \in SimulatedSprings,
          from \in ValueChoices, to \in ScaleChoices :
        \E frame_rate \in FrameRateChoices(loop),
           settles \in Trajectories(spring, AnimatedValueNew(from, to, "Scale"),
                                    1..MaxSettleFrame) :
            lastCall' = [op |-> "simulate",
                         loop |-> Simulation(loop, spring,
                                             AnimatedValueNew(from, to, "Scale"),
                                             frame_rate, settles),
                         result |-> None]
    /\ pc' = "simulating"
    /\ UNCHANGED callVars

\* one test of the loop's condition and, unless the loop ends, one turn of it
DoSimulationStep ==
    /\ pc = "simulating"
    /\ lastCall.loop.frame < MaxSimulatedFrames \/ lastCall.loop.loop # "SpringBetween::spring"
    /\ \/ /\ lastCall.loop.loop = "num_frames"
          /\ lastCall' = [lastCall EXCEPT !.loop = NumFramesStep(lastCall.loop),
                                          !.result = NumFramesStep(lastCall.loop).result]
       \/ /\ lastCall.loop.loop = "SpringFitter::new"
          /\ lastCall' = [lastCall EXCEPT !.loop = SpringFitterStep(lastCall.loop),
                                          !.result = SpringFitterStep(lastCall.loop).result]
       \/ /\ lastCall.loop.loop = "SpringBetween::spring"
          /\ lastCall' = [lastCall EXCEPT !.loop = SpringBetweenStep(lastCall.loop),
                                          !.result = SpringBetweenStep(lastCall.loop).result]
    /\ pc' = IF lastCall'.result = None THEN "simulating" ELSE "returned"
    /\ UNCHANGED callVars

\* cubic_approximation of an animation between two values
DoCubicApproximation ==
    /\ pc = "start"
    /\ series = None /\ lastCall = None
    /\ \E spring \in ApproximatedSprings, from \in ValueChoices, to \in ScaleChoices,
          frame_rate \in {R(1), R(2)} :
        \E settles \in Trajectories(spring, AnimatedValueNew(from, to, "Scale"),
                                    1..MaxSettleFrame) :
            lastCall' = [op |-> "cubic_approximation",
                         input |-> [spring |-> spring,
                                    anim |-> AnimatedValueNew(from, to, "Scale"),
                                    frame_rate |-> frame_rate, settles |-> settles],
                         frames |-> num_frames(frame_rate,
                                               AnimatedValueNew(from, to, "Scale"),
                                               spring, settles),
                         result |-> cubic_approximation(frame_rate,
                                                        AnimatedValueNew(from, to, "Scale"),
                                                        spring, settles)]
    /\ pc' = "returned"
    /\ UNCHANGED callVars

\* Motion::new of a spring-tagged rotation or scale series
DoMotionNew ==
    /\ pc = "start"
    /\ series = None /\ lastCall = None
    /\ \E ty \in {"f64", "(f64, f64)"}, sim \in SimulationChoices :
        \E source \in MotionSources(ty) :
            lastCall' = [op |-> "Motion::new",
                         input |-> [source |-> source, ty |-> ty, sim |-> sim],
                         result |-> MotionNew(source, AnimationNew.frame_rate,
                                              IF ty = "f64" THEN "Rotation" ELSE "Scale",
                                              ty, sim)]
    /\ pc' = "returned"
    /\ UNCHANGED callVars

\* Keyframe<BezPath>::subpaths of a path keyframe
DoKeyframeSubpaths ==
    /\ pc = "start"
    /\ series = None /\ lastCall = None
    /\ \E elements \in SplitPaths :
        lastCall' = [op |-> "Keyframe::subpaths", input |-> elements,
                     result |-> KeyframeSubpaths(elements, overflowChecks)]
    /\ pc' = "returned"
    /\ UNCHANGED callVars
Next ==
    \/ DoKeyframedNew
    \/ DoTryFrom
    \/ DoPush
    \/ DoAnimatedNew
    \/ DoTwirl
    \/ DoPulse
    \/ DoGlyphShapeNew
    \/ DoOfIcon
    \/ DoLottieFromAnimation
    \/ DoAvdFromAnimation
    \/ DoToAvdGroup
    \/ DoClassify
    \/ DoIconNameToGid
    \/ DoParseCommand
    \/ DoResolveIconArgument
    \/ DoSimulate
    \/ DoSimulationStep
    \/ DoCubicApproximation
    \/ DoMotionNew
    \/ DoKeyframeSubpaths

Spec == Init /\ [][Next]_vars

----------------------------------------------------------------------------
(* Properties of keyframe series *)

StrictlyAscending(kfs) ==
    \A i \in 1..(Len(kfs) - 1) : RLt(kfs[i].frame, kfs[i + 1].frame)

\* C1: after any sequence of Keyframed operations the frames of the series
\* are strictly ascending and unique.
C1_FramesAscending ==
    series # None => StrictlyAscending(series.keyframes)

HasDuplicateFrame(value) ==
    \E i, j \in 1..Len(value) : i # j /\ REq(value[i][1], value[j][1])

PairsOf(kfs) == {<<kfs[i].frame, kfs[i].value>> : i \in 1..Len(kfs)}
ElemsOf(s) == {s[i] : i \in 1..Len(s)}

TryFromContract(call) ==
    LET value == call.input
        r == call.result
    IN  /\ value = <<>> => (~r.ok /\ r.error = NoKeyframes)
        /\ (value # <<>> /\ HasDuplicateFrame(value)) =>
              /\ ~r.ok
              /\ r.error.kind = "MultipleValuesForFrame"
              /\ \E i, j \in 1..Len(value) :
                    i # j /\ value[i][1] = r.error.frame /\ value[j][1] = r.error.frame
        /\ (value # <<>> /\ ~HasDuplicateFrame(value)) =>
              /\ r.ok
              /\ Len(r.value.keyframes) = Len(value)
              /\ PairsOf(r.value.keyframes) = ElemsOf(value)
              /\ StrictlyAscending(r.value.keyframes)

AnimatedNewContract(call) ==
    LET value == call.input
        r == call.result
    IN  /\ value = <<>> => (~r.ok /\ r.error = NoKeyframes)
        /\ (value # <<>> /\ HasDuplicateFrame(value)) =>
              (~r.ok /\ r.error = DuplicateKeyframes)
        /\ (value # <<>> /\ ~HasDuplicateFrame(value)) =>
              /\ r.ok
              /\ Len(r.value) = Len(value)
              /\ ElemsOf(r.value) = ElemsOf(value)
              /\ \A i \in 1..(Len(r.value) - 1) : RLt(r.value[i][1], r.value[i + 1][1])

\* C2: building a series from a list fails with NoKeyframes on the empty list,
\* with the duplicate-frame error when two entries share a frame, and otherwise
\* holds exactly the input pairs in ascending frame order.
C2_ConstructionContract ==
    /\ (lastCall # None /\ lastCall.op = "try_from") => TryFromContract(lastCall)
    /\ (lastCall # None /\ lastCall.op = "Animated::new") => AnimatedNewContract(lastCall)

\* an unsorted duplicate-free list of full length was accepted by try_from
C2_Witness ==
    /\ lastCall # None
    /\ lastCall.op = "try_from"
    /\ lastCall.result.ok
    /\ Len(lastCall.input) = MaxLen
    /\ RGt(lastCall.input[1][1], lastCall.input[2][1])

----------------------------------------------------------------------------
(* Properties of the motions a plan assigns *)

Built == pc \in {"built", "lowered"}
Root == animation.value.value.root
Requested(kind) == pc \in {"built", "panicked", "lowered"} /\ plan.kind = kind

\* k fifths of the total frame count F
Fifths(F, k) == RDiv(RMul(F, R(k)), R(5))

FramesOf(k) == [i \in 1..Len(k.keyframes) |-> k.keyframes[i].frame]

TwirlKeyframes(F, n) ==
    <<Keyframe(Fifths(F, n), R(0)), Keyframe(Fifths(F, n + 2), R(360))>>

PulseKeyframes(F, n) ==
    <<Keyframe(Fifths(F, n), <<R(100), R(100)>>),
      Keyframe(Fifths(F, n + 1), <<R(150), R(150)>>),
      Keyframe(Fifths(F, n + 2), <<R(100), R(100)>>)>>

\* C3: twirl gives the group with index n the rotate keyframes
\* [(0.2*F*n, 0), (0.2*F*(n+2), 360)]; TwirlWhole sets them on the root with
\* n = 0 (frames 0 and 24 of 60), TwirlParts on the n-th part group.
C3_TwirlKeyframes ==
    /\ (lastCall # None /\ lastCall.op = "twirl") =>
          /\ ~lastCall.result.panic
          /\ lastCall.result.value.keyframes =
                TwirlKeyframes(lastCall.input[2], lastCall.input[3])
    /\ (Built /\ plan.kind = "TwirlWhole") =>
          /\ Root.rotate.keyframes = TwirlKeyframes(R(60), 0)
          /\ FramesOf(Root.rotate) = <<R(0), R(24)>>
    /\ (Built /\ plan.kind = "TwirlParts") =>
          \A c \in 1..Len(Root.children) :
              /\ Root.children[c].type = "Group"
              /\ Root.children[c].group.rotate.keyframes = TwirlKeyframes(R(60), c - 1)

C3_Witness ==
    /\ Built /\ plan.kind = "TwirlParts"
    /\ Len(Root.children) = 2
    /\ FramesOf(Root.children[2].group.rotate) = <<R(12), R(36)>>

\* C4: pulse gives the group with index n the scale keyframes
\* [(0.2*F*n, (100,100)), (0.2*F*(n+1), (150,150)), (0.2*F*(n+2), (100,100))];
\* PulseWhole sets them on the root with n = 0, PulseParts on the n-th part
\* group: frames [0, 12, 24] for the first part and [12, 24, 36] for the second.
C4_PulseKeyframes ==
    /\ (lastCall # None /\ lastCall.op = "pulse") =>
          /\ ~lastCall.result.panic
          /\ lastCall.result.value.keyframes =
                PulseKeyframes(lastCall.input[2], lastCall.input[3])
    /\ (Built /\ plan.kind = "PulseWhole") =>
          Root.scale.keyframes = PulseKeyframes(R(60), 0)
    /\ (Built /\ plan.kind = "PulseParts") =>
          /\ \A c \in 1..Len(Root.children) :
                /\ Root.children[c].type = "Group"
                /\ Root.children[c].group.scale.keyframes = PulseKeyframes(R(60), c - 1)
          /\ Len(Root.children) >= 1 =>
                FramesOf(Root.children[1].group.scale) = <<R(0), R(12), R(24)>>
          /\ Len(Root.children) >= 2 =>
                FramesOf(Root.children[2].group.scale) = <<R(12), R(24), R(36)>>

C4_Witness ==
    /\ Built /\ plan.kind = "PulseParts"
    /\ Len(Root.children) = 2
    /\ Len(Root.children[2].group.scale.keyframes) = 3

\* C5: a RotateDegrees(d) plan applied to a freshly built IR completes and
\* leaves the root rotating from 0 at frame 0 to d at frame 0.4*frames.
C5_RotateDegreesApplied ==
    Requested("RotateDegrees") =>
        /\ ~animation.panic
        /\ Root.rotate.keyframes =
              <<Keyframe(R(0), R(0)),
                Keyframe(Fifths(animation.value.value.frames, 2), plan.args[1])>>

\* C6: a ScaleFromTo(a, b) plan applied to a freshly built IR completes and
\* leaves the root scaling from a% at frame 0 to b% at the last frame.
C6_ScaleFromToApplied ==
    Requested("ScaleFromTo") =>
        /\ ~animation.panic
        /\ Root.scale.keyframes =
              <<Keyframe(R(0), <<plan.args[1], plan.args[1]>>),
                Keyframe(animation.value.value.frames, <<plan.args[2], plan.args[2]>>)>>

----------------------------------------------------------------------------
(* Properties of the Lottie lowering *)

Lowered == pc = "lowered"
LoweredOk == Lowered /\ ~lottie.panic /\ lottie.value.ok
LottieRoot == lottie.value.value.layers[1].shapes[1]

\* the glyph is drawn at two locations
Morphs == glyph.end # None
KindsAt(location) == path_commands(draw(location, glyph.gid))
SameKinds == KindsAt(glyph.start) = KindsAt(glyph.end.some)

\* the default ease as Lottie carries it
DefaultBezier == [in_value |-> Pt(Frac(6, 10), R(1)), out_value |-> Pt(Frac(4, 10), R(0))]

\* the Shape items of a Lottie group and of the groups below it
RECURSIVE LottieShapes(_)
LottieShapes(group) ==
    Concat([k \in 1..Len(group.items) |->
               CASE group.items[k].type = "Shape" -> <<group.items[k]>>
                 [] group.items[k].type = "Group" -> LottieShapes(group.items[k])
                 [] OTHER -> <<>>])

\* a group of the IR and the groups below it, parents first
RECURSIVE GroupsOf(_)
GroupsOf(group) ==
    <<group>> \o Concat([c \in 1..Len(group.children) |->
                            IF group.children[c].type = "Group"
                            THEN GroupsOf(group.children[c].group) ELSE <<>>])

\* a Lottie group and the groups below it, parents first
RECURSIVE LottieGroupsOf(_)
LottieGroupsOf(group) ==
    <<group>> \o Concat([k \in 1..Len(group.items) |->
                            IF group.items[k].type = "Group"
                            THEN LottieGroupsOf(group.items[k]) ELSE <<>>])

\* the shapes directly under the groups of the IR
ShapesOf(group) ==
    Concat([g \in 1..Len(GroupsOf(group)) |->
               LET children == GroupsOf(group)[g].children
               IN  Concat([c \in 1..Len(children) |->
                              IF children[c].type = "Shape"
                              THEN <<children[c].shape>> ELSE <<>>])])

\* C7: lowering the IR of a glyph drawn at two locations whose outlines have
\* the same kind sequence succeeds whatever the plan; every shape is animated
\* by exactly two keyframes, at frames 0 and 60, with the default ease, and
\* with plan None the root holds a single animated subpath.
C7_ShapeMorphLowers ==
    (Lowered /\ Morphs /\ SameKinds) =>
        /\ LoweredOk
        /\ \A k \in 1..Len(LottieShapes(LottieRoot)) :
              LET shape == LottieShapes(LottieRoot)[k]
              IN  /\ shape.vertices.animated = 1
                  /\ [j \in 1..Len(shape.vertices.keyframes) |->
                         shape.vertices.keyframes[j].start_time] = <<R(0), R(60)>>
                  /\ \A j \in 1..Len(shape.vertices.keyframes) :
                         shape.vertices.keyframes[j].bezier = DefaultBezier
        /\ plan.kind = "None" =>
              /\ Len(LottieRoot.items) = 3
              /\ LottieRoot.items[1].type = "Shape"

\* C8: when the outlines at the two locations differ in kind sequence the
\* request ends in Lottie lowering returning IncompatiblePaths, whichever of
\* the None, whole and parts plans was applied and without a panic; when all
\* keyframes of every shape agree in kind sequence it is not returned.
C8_IncompatiblePathsReported ==
    /\ ( /\ pc \in {"panicked", "lowered"}
         /\ plan.kind \in {"None", "TwirlWhole", "TwirlParts", "PulseWhole", "PulseParts"}
         /\ Morphs /\ ~SameKinds ) =>
            /\ Lowered
            /\ ~lottie.panic
            /\ ~lottie.value.ok
            /\ lottie.value.error.kind = "IncompatiblePaths"
    /\ ( /\ Lowered
         /\ \A k \in 1..Len(ShapesOf(Root)) :
               \A j \in 1..Len(ShapesOf(Root)[k].keyframes) :
                   path_commands(ShapesOf(Root)[k].keyframes[j].value)
                      = path_commands(ShapesOf(Root)[k].keyframes[1].value) ) =>
            ~(~lottie.panic /\ ~lottie.value.ok
                /\ lottie.value.error.kind = "IncompatiblePaths")

\* the Transform item of a Lottie group: to_lottie_group pushes it last
TransformOf(group) == group.items[Len(group.items)]

\* a cubic moved to the unit square: its handles relative to its start, over
\* the span from its start to its end
UnitSquare(c) ==
    [in_value |-> Pt(RDiv(RSub(c.p2.x, c.p0.x), RSub(c.p3.x, c.p0.x)),
                     RDiv(RSub(c.p2.y, c.p0.y), RSub(c.p3.y, c.p0.y))),
     out_value |-> Pt(RDiv(RSub(c.p1.x, c.p0.x), RSub(c.p3.x, c.p0.x)),
                      RDiv(RSub(c.p1.y, c.p0.y), RSub(c.p3.y, c.p0.y)))]

\* the cubics produced for the pairs of consecutive keyframes of a series
\* whose keyframes have the scalar values `scalars`, pair after pair
CubicsOfPairs(scalars, spring, value_type) ==
    Concat([i \in 1..(Len(scalars) - 1) |->
               cubic_approximation(animation.value.value.frame_rate,
                                   AnimatedValueNew(scalars[i], scalars[i + 1], value_type),
                                   spring, equilibria[i]).value])

\* what C9 says of one transform series and the Lottie property made from it
EmittedAsClaimed(kfd, scalars, value_type, property) ==
    Len(kfd.keyframes) >= 2 =>
        /\ property.animated = 1
        /\ IF kfd.spring # None
           THEN LET cubics == CubicsOfPairs(scalars, kfd.spring, value_type)
                IN  /\ Len(property.keyframes) = 1 + Len(cubics)
                    /\ property.keyframes[1].bezier = DefaultBezier
                    /\ \A j \in 2..Len(property.keyframes) :
                          property.keyframes[j].bezier = UnitSquare(cubics[j - 1])
           ELSE /\ Len(property.keyframes) = Len(kfd.keyframes)
                /\ \A j \in 1..Len(property.keyframes) :
                      property.keyframes[j].bezier = DefaultBezier

\* C9: a spring-tagged transform series of n >= 2 keyframes is lowered to one
\* Lottie keyframe plus one per cubic made for its n-1 pairs; the first has
\* the default ease, each later one the ease of its own cubic moved to the
\* unit square; an untagged series is lowered keyframe by keyframe, each with
\* the default ease, in (0.6, 1.0) and out (0.4, 0.0).
C9_SpringExpansionCount ==
    LoweredOk =>
        \A g \in 1..Len(GroupsOf(Root)) :
            LET group == GroupsOf(Root)[g]
                transform == TransformOf(LottieGroupsOf(LottieRoot)[g])
            IN  /\ Len(LottieGroupsOf(LottieRoot)) = Len(GroupsOf(Root))
                /\ EmittedAsClaimed(group.rotate,
                                    [k \in 1..Len(group.rotate.keyframes) |->
                                        group.rotate.keyframes[k].value],
                                    "Rotation", transform.rotation)
                /\ EmittedAsClaimed(group.scale,
                                    [k \in 1..Len(group.scale.keyframes) |->
                                        group.scale.keyframes[k].value[1]],
                                    "Scale", transform.scale)

\* part groups pulsing under the spring of two cubics
C9_Witness ==
    /\ LoweredOk
    /\ plan.kind = "PulseParts"
    /\ plan.spring = SpringExpressiveSpatial
    /\ Len(Root.children) = 2
    /\ Len(TransformOf(LottieGroupsOf(LottieRoot)[3]).scale.keyframes) = 5
    /\ TransformOf(LottieRoot).scale.animated = 0

\* C10: after TwirlParts or PulseParts the children of the root are the part
\* groups the grouper makes of the glyph's shape, in its order and nothing
\* else; a part group holds shapes only; the i-th part group carries the
\* motion made for index i; the root keeps its default rotate, scale and
\* translate of one keyframe each.
C10_PartsUnderRoot ==
    (Built /\ plan.kind \in {"TwirlParts", "PulseParts"}) =>
        LET parts == group_parts(<<for_glyph(animation.value.value.frames, glyph)>>,
                                 overflowChecks)
            moved == IF plan.kind = "TwirlParts" THEN "rotate" ELSE "scale"
        IN  /\ ~parts.panic
            /\ Len(Root.children) = Len(parts.value)
            /\ \A c \in 1..Len(Root.children) :
                  /\ Root.children[c].type = "Group"
                  /\ [Root.children[c].group EXCEPT ![moved] = GroupDefault[moved]]
                        = parts.value[c]
                  /\ \A k \in 1..Len(Root.children[c].group.children) :
                        Root.children[c].group.children[k].type = "Shape"
                  /\ Root.children[c].group[moved].keyframes[1].frame
                        = Fifths(animation.value.value.frames, c - 1)
            /\ Root.rotate = KeyframedNew(R(0), R(0), None)
            /\ Root.scale = KeyframedNew(R(0), <<R(100), R(100)>>, None)
            /\ Root.translate = KeyframedNew(R(0), Pt(R(0), R(0)), None)

C10_Witness ==
    /\ Built /\ plan.kind = "PulseParts"
    /\ glyph.gid = "check_circle"
    /\ Len(Root.children) = 2
    /\ Len(Root.children[2].group.children) = 2
    /\ FramesOf(Root.children[2].group.scale) = <<R(12), R(24), R(36)>>

----------------------------------------------------------------------------
(* Properties of part grouping *)

\* the subpaths the grouper is given for the glyph, their first-keyframe paths
InputShapes ==
    KeyframedSubpaths(for_glyph(animation.value.value.frames, glyph), overflowChecks).value
InputPaths == [i \in 1..Len(InputShapes) |-> earliest(InputShapes[i]).value]

\* the shapes of the g-th part group under the root
MembersOf(g) ==
    [k \in 1..Len(Root.children[g].group.children) |->
        Root.children[g].group.children[k].shape]

\* Rect a contains Rect b
BoxContains(a, b) == a.x0 <= b.x0 /\ a.y0 <= b.y0 /\ b.x1 <= a.x1 /\ b.y1 <= a.y1

\* what C11 says of the part groups made of `shapes` classified as `filled`
PartitionsInput(shapes, filled) ==
    /\ Len(ShapesOf(Root)) <= Len(shapes)
    /\ Len(Root.children) = Cardinality({i \in 1..Len(shapes) : filled[i]})
    /\ \A i \in 1..Len(shapes) :
          IF filled[i]
          THEN Cardinality({g \in 1..Len(Root.children) : MembersOf(g)[1] = shapes[i]}) = 1
          ELSE /\ Cardinality({g \in 1..Len(Root.children) :
                                  \E k \in 1..Len(MembersOf(g)) : MembersOf(g)[k] = shapes[i]})
                     <= 1
               /\ \A g \in 1..Len(Root.children) :
                     (\E k \in 1..Len(MembersOf(g)) : MembersOf(g)[k] = shapes[i]) =>
                         BoxContains(bounding_box(earliest(MembersOf(g)[1]).value),
                                     bounding_box(earliest(shapes[i]).value))

\* C11: part grouping partitions its input: the groups together hold at most
\* as many subpaths as were given, there is one group per filled subpath, each
\* filled subpath is the first member of exactly one group, and each unfilled
\* subpath is in at most one group and only in a group whose first member's
\* bounding box contains its bounding box.
C11_PartGroupingPartitions ==
    (Built /\ plan.kind \in {"TwirlParts", "PulseParts"}) =>
        LET shapes == InputShapes
            filled == Filled(InputPaths)
        IN  PartitionsInput(shapes, filled)

----------------------------------------------------------------------------
(* Structure of the lowered Lottie *)

\* the number of SubPath items to_lottie_subpath makes of a shape: one per
\* subpath of a static shape, one for an animated shape
SubPathCount(shape) ==
    IF Len(shape.keyframes) < 2
    THEN Len(KeyframeSubpaths(earliest(shape).value, overflowChecks).value)
    ELSE 1

\* the types of the items of the lowered group: the lowered children in IR
\* order, then the Fill, then the Transform
ExpectedItemTypes(group) ==
    Concat([c \in 1..Len(group.children) |->
               IF group.children[c].type = "Group" THEN <<"Group">>
               ELSE [j \in 1..SubPathCount(group.children[c].shape) |-> "Shape"]])
    \o <<"Fill", "Transform">>

ItemTypes(group) == [k \in 1..Len(group.items) |-> group.items[k].type]

OneLayerOneRoot ==
    /\ Len(lottie.value.value.layers) = 1
    /\ lottie.value.value.layers[1].type = "Shape"
    /\ Len(lottie.value.value.layers[1].shapes) = 1
    /\ LottieRoot.type = "Group"

GroupsAsClaimed(groups, lowered) ==
    /\ Len(lowered) = Len(groups)
    /\ \A g \in 1..Len(groups) : ItemTypes(lowered[g]) = ExpectedItemTypes(groups[g])

\* C12: a lowered Lottie has exactly one shape layer holding exactly one root
\* Group; the items of every lowered group, root and nested, are the lowered
\* children in IR order followed by exactly one Fill and then exactly one
\* Transform; and the lowering step leaves the IR as it was.
C12_LottieStructure ==
    /\ [](LoweredOk =>
            /\ OneLayerOneRoot
            /\ LET groups == GroupsOf(Root)
                   lowered == LottieGroupsOf(LottieRoot)
               IN  GroupsAsClaimed(groups, lowered))
    /\ [][pc' = "lowered" => animation' = animation]_vars

C12_Witness ==
    /\ LoweredOk
    /\ glyph.gid = "check_circle"
    /\ plan.kind = "TwirlParts"
    /\ ItemTypes(LottieRoot) = <<"Group", "Group", "Fill", "Transform">>
    /\ ItemTypes(LottieRoot.items[2]) = <<"Shape", "Shape", "Fill", "Transform">>

----------------------------------------------------------------------------
(* Properties of the Android Vector Drawable lowering *)

AvdDone == avd # None
AvdRoot == avd.value.drawable

\* the path data of a lowered group and of the groups below it, in document order
RECURSIVE AvdData(_)
AvdData(g) ==
    Concat([i \in 1..Len(g.children) |->
                IF g.children[i].type = "Path" THEN g.children[i].path.path
                ELSE AvdData(g.children[i].group)])

\* the path data of the first keyframe of every shape of a group, in document order
RECURSIVE EarliestData(_)
EarliestData(group) ==
    Concat([i \in 1..Len(group.children) |->
                IF group.children[i].type = "Shape"
                THEN to_svg(group.children[i].shape.keyframes[1].value)
                ELSE EarliestData(group.children[i].group)])

\* the shapes of a group and of the groups below it
RECURSIVE ShapesBelow(_)
ShapesBelow(group) ==
    Concat([i \in 1..Len(group.children) |->
                IF group.children[i].type = "Shape" THEN <<group.children[i].shape>>
                ELSE ShapesBelow(group.children[i].group)])

\* C13: lowering an animation to an Android Vector Drawable returns Ok whatever
\* the keyframes of its shapes are, also when the Lottie lowering of the same
\* animation returns IncompatiblePaths, and the path data it emits is the path
\* data of the first keyframe of the shapes and nothing else
C13_AvdNeverFails ==
    AvdDone =>
        /\ avd.ok
        /\ LET emitted == AvdData(AvdRoot)
               first == EarliestData(Root)
           IN  emitted = first

\* an animation whose shape has two incompatible keyframes: Lottie refuses it
\* and the Android lowering has delivered
C13_Witness ==
    /\ AvdDone /\ avd.ok
    /\ Lowered /\ ~lottie.panic /\ ~lottie.value.ok
    /\ lottie.value.error.kind = "IncompatiblePaths"
    /\ \E k \in 1..Len(ShapesBelow(Root)) :
          /\ Len(ShapesBelow(Root)[k].keyframes) = 2
          /\ ShapesBelow(Root)[k].keyframes[1].value # ShapesBelow(Root)[k].keyframes[2].value

\* the children of a group that open a lowered child: every Group, and every
\* Shape that is the first child or comes after a Group
RunStarts(children) ==
    SelectSeq([i \in 1..Len(children) |-> i],
              LAMBDA i : \/ children[i].type = "Group"
                         \/ i = 1
                         \/ children[i - 1].type = "Group")

\* the last child of the maximal run of shapes that starts at child i
RunEnd(children, i) ==
    CHOOSE j \in i..Len(children) :
        /\ \A m \in i..j : children[m].type = "Shape"
        /\ j = Len(children) \/ children[j + 1].type = "Group"

\* the first-keyframe path data of children i..j, one after the other
RunData(children, i, j) ==
    Concat([m \in 1..(j - i + 1) |-> to_svg(children[i + m - 1].shape.keyframes[1].value)])

\* a lowered group has one child for every run start, in order: a group for a
\* Group, and one path with the data of the whole run for a run of shapes
RECURSIVE RunsAsClaimed(_, _)
RunsAsClaimed(group, lowered) ==
    LET starts == RunStarts(group.children)
    IN  /\ Len(lowered.children) = Len(starts)
        /\ \A k \in 1..Len(starts) :
              IF group.children[starts[k]].type = "Group"
              THEN /\ lowered.children[k].type = "Group"
                   /\ RunsAsClaimed(group.children[starts[k]].group,
                                    lowered.children[k].group)
              ELSE /\ lowered.children[k].type = "Path"
                   /\ lowered.children[k].path.path =
                          RunData(group.children, starts[k],
                                  RunEnd(group.children, starts[k]))

\* C14: in a lowered group every maximal run of consecutive Shape children is
\* one path whose data is the first-keyframe data of the shapes of the run, in
\* order; a Group child ends the run and is lowered to a group at its place, so
\* there are as many paths as runs and the order of paths and groups is kept
C14_ShapeRunsGlued ==
    /\ (lastCall # None /\ lastCall.op = "to_avd_group") =>
            RunsAsClaimed(lastCall.input, lastCall.result)
    /\ AvdDone => RunsAsClaimed(Root, AvdRoot)

\* two shapes, a group and a shape: a glued path, a group and a second path
C14_Witness ==
    /\ lastCall # None /\ lastCall.op = "to_avd_group"
    /\ [i \in 1..Len(lastCall.input.children) |-> lastCall.input.children[i].type]
          = <<"Shape", "Shape", "Group", "Shape">>
    /\ [i \in 1..Len(lastCall.result.children) |-> lastCall.result.children[i].type]
          = <<"Path", "Group", "Path">>
    /\ Len(lastCall.result.children[1].path.path) =
          Len(lastCall.input.children[1].shape.keyframes[1].value)
          + Len(lastCall.input.children[2].shape.keyframes[1].value)

----------------------------------------------------------------------------
(* Properties of the planner: GlyphShape, commands, icon names *)

Parsed == lastCall # None /\ lastCall.op = "parse_command"

\* the frames claimed for the shape of a GlyphShape
ClaimedFrames(glyph_shape) ==
    IF glyph_shape.end = None THEN <<R(0)>> ELSE <<R(0), AnimationNew.frames>>

\* C15: a GlyphShape never has an end location equal to its start location
\* (such an end is dropped); the shape drawn from it has one keyframe at frame
\* 0 when it has no end and two keyframes at frames 0 and last_frame when it
\* has one; and the GlyphShape of a command without a vary clause has no end,
\* so that its shape has the single keyframe at frame 0
C15_StaticWithoutVary ==
    /\ (glyph # None /\ glyph.end # None) => glyph.end.some # glyph.start
    /\ (Built /\ plan.kind = "None") =>
            /\ Len(Root.children) = 1 /\ Root.children[1].type = "Shape"
            /\ FramesOf(Root.children[1].shape) = ClaimedFrames(glyph)
    /\ (Parsed /\ lastCall.result.ok) =>
            LET shape == lastCall.result.value.glyph_shape
            IN  /\ shape.end # None => shape.end.some # shape.start
                /\ FramesOf(for_glyph(AnimationNew.frames, shape)) = ClaimedFrames(shape)
                /\ (\A i \in 1..Len(lastCall.input.words) : lastCall.input.words[i] # "vary")
                      => shape.end = None

\* a command without a vary clause was parsed: start and end were both the
\* default location, and the shape is static
C15_Witness ==
    /\ Parsed /\ lastCall.result.ok
    /\ lastCall.input.words = <<"twirl", "using", "standard">>
    /\ lastCall.result.value.glyph_shape.start = 0
    /\ lastCall.result.value.glyph_shape.end = None
    /\ FramesOf(for_glyph(AnimationNew.frames, lastCall.result.value.glyph_shape)) = <<R(0)>>

\* the motions of the commands Command::parse accepts, the lack of one among them
AcceptedMotions ==
    {<<>>, <<"pulse">>, <<"pulse-whole">>, <<"twirl">>, <<"twirl-whole">>,
     <<"rotate", "90", "degrees">>, <<"scale", "0", "to", "100">>}

\* a vary clause or the lack of one
WholeVaries == {v \in VaryChoices : Len(v) \in {0, 4}}

\* the command is a motion, a using clause that names something that is not a
\* preset, and a variation
NamesUnknownSpring(cmd) ==
    \E motion \in AcceptedMotions, vary \in WholeVaries :
        /\ Len(cmd.words) = Len(motion) + 2 + Len(vary)
        /\ cmd.words[Len(motion) + 1] = "using"
        /\ cmd.words = motion \o <<"using", cmd.words[Len(motion) + 2]>> \o vary
        /\ IsSpringWord(cmd.words[Len(motion) + 2])
        /\ cmd.words[Len(motion) + 2] \notin SpringNames

GrammarPlan(motion) ==
    CASE motion = <<>> -> <<"None">>
      [] motion = <<"none">> -> <<"None">>
      [] motion = <<"pulse">> -> <<"PulseParts">>
      [] motion = <<"pulse-whole">> -> <<"PulseWhole">>
      [] motion = <<"twirl">> -> <<"TwirlParts">>
      [] motion = <<"twirl-whole">> -> <<"TwirlWhole">>
      [] motion = <<"rotate", "90", "degrees">> -> <<"RotateDegrees", R(90)>>
      [] motion = <<"scale", "0", "to", "100">> -> <<"ScaleFromTo", R(0), R(100)>>

\* the clauses of a command of the grammar, taken word by word: a motion of
\* the grammar, a using clause that names a preset, a variation
GrammarClauses(cmd) ==
    {c \in [motion : AcceptedMotions \cup {<<"none">>},
            using : {<<>>} \cup {<<"using", name>> : name \in SpringNames},
            vary : WholeVaries] :
        cmd.words = c.motion \o c.using \o c.vary}

InGrammar(cmd) ==
    cmd.head = "Animate" /\ IsIdent(cmd.ident) /\ GrammarClauses(cmd) # {}

\* what the grammar makes of a command: the plan variant with its arguments,
\* the icon name, the spring of the using clause and the two locations
GrammarCommand(cmd, c) ==
    [kind |-> GrammarPlan(c.motion)[1],
     args |-> Tail(GrammarPlan(c.motion)),
     nv |-> [icon_name |-> cmd.ident,
             spring |-> IF c.using = <<>> THEN None ELSE SpringFromStr(c.using[2]).value,
             vary_from |-> IF c.vary = <<>> THEN None ELSE [some |-> c.vary[2]],
             vary_to |-> IF c.vary = <<>> THEN None ELSE [some |-> c.vary[4]]]]

\* C17: Command::parse gives a command of the grammar the plan variant of its
\* motion (None for no motion and for `none`, PulseParts for pulse, PulseWhole
\* for pulse-whole, TwirlParts for twirl, TwirlWhole for twirl-whole,
\* RotateDegrees(N), ScaleFromTo(A, B)) with the using and vary clauses captured
\* the same way for every motion, and UnrecognizedCommand to every text that
\* is not of the grammar, a using clause with an unknown name aside
C17_ParseFollowsGrammar ==
    Parsed =>
        /\ InGrammar(lastCall.input) =>
              \A c \in GrammarClauses(lastCall.input) :
                  lastCall.parsed = Ok(GrammarCommand(lastCall.input, c))
        /\ (~InGrammar(lastCall.input) /\ ~NamesUnknownSpring(lastCall.input)) =>
              lastCall.parsed = Err(UnrecognizedCommand)

Named == lastCall # None /\ lastCall.op = "icon_name_to_gid"

\* the ligatures of one ligature subtable: the glyphs a ligature replaces,
\* first glyph and components, and its output glyph, set by set
LigaturesOf(subtable) ==
    Concat([i \in 1..Len(subtable.coverage) |->
               [k \in 1..Len(subtable.ligature_sets[i]) |->
                   [glyphs |-> <<subtable.coverage[i]>>
                                  \o subtable.ligature_sets[i][k].components,
                    output |-> subtable.ligature_sets[i][k].glyph]]])

\* the ligatures of the ligature lookups of the font, direct and extension, in font order
FontLigatures ==
    Concat([l \in 1..Len(GsubLookups) |->
              IF GsubLookups[l].type = "Ligature"
              THEN Concat([t \in 1..Len(GsubLookups[l].subtables) |->
                              LigaturesOf(GsubLookups[l].subtables[t])])
              ELSE IF GsubLookups[l].type = "Extension"
              THEN Concat([t \in 1..Len(GsubLookups[l].subtables) |->
                              IF GsubLookups[l].subtables[t].type = "Ligature"
                              THEN LigaturesOf(GsubLookups[l].subtables[t].extension)
                              ELSE <<>>])
              ELSE <<>>])

\* the glyphs of the characters of a name that the character map has
GlyphsOfName(name) ==
    [i \in 1..Len(Chars(name)) |->
        IF CodePoint(Chars(name)[i]) \in DOMAIN Charmap
        THEN Charmap[CodePoint(Chars(name)[i])] ELSE "unmapped"]

\* the result claimed for a name: UnmappedChar for the first character without
\* a glyph, else the output of the first ligature that replaces exactly the
\* glyphs of the name, else NoLigature
ClaimedResolution(name) ==
    LET glyphs == GlyphsOfName(name)
        unmapped == {i \in 1..Len(glyphs) : glyphs[i] = "unmapped"}
        matching == {k \in 1..Len(FontLigatures) : FontLigatures[k].glyphs = glyphs}
    IN  IF unmapped # {}
        THEN Err(UnmappedCharError(Chars(name)[CHOOSE i \in unmapped :
                                                   \A j \in unmapped : i <= j]))
        ELSE IF matching = {} THEN Err(NoLigature(name))
        ELSE Ok(FontLigatures[CHOOSE k \in matching : \A j \in matching : k <= j].output)

\* C18 as the specification has it: a name resolves to UnmappedChar(c) for its
\* first unmapped character, else to the output glyph of the first ligature, in
\* font order over the direct and extension ligature lookups, whose first glyph
\* and components are the glyphs of the name, else to NoLigature(name)
C18_NameResolution ==
    Named => lastCall.result = ClaimedResolution(lastCall.input)

\* C18: the same for a name of one character or more; the empty name, which
\* has no first glyph, fails with NoGlyphIds(name) in the first ligature subtable
C18_NonEmptyNameResolution ==
    Named =>
        IF lastCall.input = "" THEN lastCall.result = Err(NoGlyphIds(""))
        ELSE lastCall.result = ClaimedResolution(lastCall.input)

\* "ok" is resolved: the ligature "okk" stands before it in the set and an
\* extension lookup further on gives "ok" another glyph
C18_Witness ==
    /\ Named /\ lastCall.input = "ok"
    /\ lastCall.result = Ok("check_circle")
    /\ \E k \in 1..Len(FontLigatures) :
          /\ FontLigatures[k].glyphs = <<"g_o", "g_k", "g_k">>
          /\ \E j \in (k + 1)..Len(FontLigatures) :
                FontLigatures[j] = [glyphs |-> <<"g_o", "g_k">>, output |-> "check_circle"]
    /\ \E k \in 1..Len(FontLigatures) :
          FontLigatures[k] = [glyphs |-> <<"g_o", "g_k">>, output |-> "dots"]

IconArgument == lastCall # None /\ lastCall.op \in {"iconimation-cli", "codepoint-cli"}

\* the identifier has the prefix 0x
IsCodepoint(ident) == Len(Chars(ident)) >= 2 /\ SubSeq(Chars(ident), 1, 2) = <<"0", "x">>

\* the code point an identifier with the prefix 0x writes in hexadecimal
CodepointOf(ident) == ParseDigits(SubSeq(Chars(ident), 3, Len(Chars(ident))), 16)

\* C19: an identifier with the prefix 0x is a code point written in
\* hexadecimal: the planner, given a command with such an identifier, and the
\* two command lines, given such an icon, come to the glyph the character map
\* has for it, and to the error UnmappedCodepoint when it has none
C19_CodepointResolution ==
    /\ (/\ Parsed /\ lastCall.parsed.ok /\ IsCodepoint(lastCall.input.ident)
        /\ CodepointOf(lastCall.input.ident).ok
        /\ variation(lastCall.parsed.value).ok) =>
            IF CodepointOf(lastCall.input.ident).value \in DOMAIN Charmap
            THEN /\ lastCall.result.ok
                 /\ lastCall.result.value.glyph_shape.gid =
                        Charmap[CodepointOf(lastCall.input.ident).value]
            ELSE /\ ~lastCall.result.ok
                 /\ lastCall.result.error.kind = "UnmappedCodepoint"
    /\ (/\ IconArgument /\ IsCodepoint(lastCall.input)
        /\ CodepointOf(lastCall.input).ok) =>
            IF CodepointOf(lastCall.input).value \in DOMAIN Charmap
            THEN lastCall.result = Done(Charmap[CodepointOf(lastCall.input).value])
            ELSE /\ ~lastCall.result.panic
                 /\ ~lastCall.result.value.ok
                 /\ lastCall.result.value.error.kind = "UnmappedCodepoint"

----------------------------------------------------------------------------
(* Properties of the filled classification *)

Classified == lastCall # None /\ lastCall.op = "filled"

\* a pure hole: a subpath that winds around its probe point, is classified as
\* unfilled, and lies in the bounding box of a subpath classified as filled
PureHole(paths, filled, r) ==
    /\ contained_point(paths[r]) # None
    /\ ~filled[r]
    /\ \E i \in 1..Len(paths) :
          /\ i # r /\ filled[i]
          /\ BoxContains(bounding_box(paths[i]), bounding_box(paths[r]))

\* C20 as the specification has it: the classification of the subpaths of a
\* glyph is the same before and after a pure hole among them is reversed
C20_WindingIndependence ==
    (Classified /\ PureHole(lastCall.input.paths, lastCall.result.before,
                            lastCall.input.reversed)) =>
        lastCall.result.after = lastCall.result.before

\* C20: under the nonzero rule a reversed pure hole is classified as filled,
\* the sum of the windings around its probe point being no longer zero; the
\* classification of a subpath whose probe point the hole does not wind
\* around is the same before and after
C20_ReversedHoleIsFilled ==
    (Classified /\ PureHole(lastCall.input.paths, lastCall.result.before,
                            lastCall.input.reversed)) =>
        LET paths == lastCall.input.paths
            r == lastCall.input.reversed
        IN  /\ ~lastCall.result.before[r]
            /\ lastCall.result.after[r]
            /\ \A i \in 1..Len(paths) :
                  (/\ i # r
                   /\ \/ contained_point(paths[i]) = None
                      \/ winding(paths[r], contained_point(paths[i]).some) = 0)
                      => lastCall.result.after[i] = lastCall.result.before[i]

\* the hole of the ring is reversed: ring and hole are both filled afterwards
C20_Witness ==
    /\ Classified
    /\ Len(lastCall.input.paths) = 2 /\ lastCall.input.reversed = 2
    /\ PureHole(lastCall.input.paths, lastCall.result.before, 2)
    /\ lastCall.result.before = <<TRUE, FALSE>>
    /\ lastCall.result.after = <<TRUE, TRUE>>

----------------------------------------------------------------------------
(* Properties of the spring simulation *)

Simulated(loop) ==
    lastCall # None /\ lastCall.op = "simulate" /\ lastCall.loop.loop = loop

Presets == {SpringFromStr(name).value : name \in SpringNames}

----------------------------------------------------------------------------
(* Order and assignment of part grouping *)

\* what C22 says of the part groups made of `shapes` with outlines `paths`
\* classified as `filled`: the filled subpath with the r-th smallest bounding
\* box (ties in input order) opens group r, and an unfilled subpath is a later
\* member of group g exactly when g is the first group whose filled member's
\* bounding box contains its bounding box
GroupedAsClaimed(shapes, paths, filled) ==
    LET boxes == [i \in 1..Len(paths) |-> bounding_box(paths[i])]
        members == [g \in 1..Len(Root.children) |-> MembersOf(g)]
        rank == [i \in 1..Len(paths) |->
                    1 + Cardinality({j \in 1..Len(paths) :
                                        /\ filled[j]
                                        /\ \/ RectArea(boxes[j]) < RectArea(boxes[i])
                                           \/ /\ RectArea(boxes[j]) = RectArea(boxes[i])
                                              /\ j < i})]
        containing == [i \in 1..Len(paths) |->
                          {rank[j] : j \in {f \in 1..Len(paths) :
                                               filled[f] /\ BoxContains(boxes[f], boxes[i])}}]
    IN  /\ Len(members) = Cardinality({i \in 1..Len(paths) : filled[i]})
        /\ \A i \in 1..Len(paths) :
              IF filled[i]
              THEN members[rank[i]][1] = shapes[i]
              ELSE \A g \in 1..Len(members) :
                      (\E k \in 2..Len(members[g]) : members[g][k] = shapes[i])
                          <=> (containing[i] # {} /\ g = SetMin(containing[i]))

\* C22: in part grouping the groups are created in ascending order of the
\* bounding-box area of their filled subpath, ties in input order; each
\* unfilled subpath is put into the first group in that order whose filled
\* member's bounding box contains its bounding box, and an unfilled subpath
\* that no group contains is in no group
C22_GroupingOrder ==
    (Built /\ plan.kind \in {"TwirlParts", "PulseParts"}) =>
        \A shapes \in {InputShapes} :
            \A paths \in {[i \in 1..Len(shapes) |-> earliest(shapes[i]).value]} :
                \A filled \in {Filled(paths)} : GroupedAsClaimed(shapes, paths, filled)

\* the frames from 0 whose simulated state is at equilibrium
SettledFrames(l) == {j \in 0..MaxSettleFrame : SettledAt(l.anim, l.settles, j)}

\* whether frame k is simulated before the time cap: k / frame_rate <= 5.0
WithinCap(l, k) == ~RGt(RDiv(R(k), l.frame_rate), TIME_LIMIT)

PastCap(l) ==
    /\ l.current # None
    /\ RGt(RDiv(R(l.current.some), l.frame_rate), TIME_LIMIT)
    /\ ~CurrentAtEquilibrium(l)

\* C24: every loop that simulates a spring until equilibrium (the frame
\* counter num_frames, the trajectory builder SpringFitter::new and the
\* keyframe generator SpringBetween::spring) stops with an error once the
\* simulated time has passed the 5 second cap without equilibrium, for every
\* spring of damping >= 0 and every positive frame rate: no loop holds a state
\* simulated past the cap and runs on
C24_LoopsStopAtCap ==
    (lastCall # None /\ lastCall.op = "simulate" /\ PastCap(lastCall.loop)) =>
        (lastCall.result # None /\ ~lastCall.result.ok)

----------------------------------------------------------------------------
(* Properties of cubic_approximation *)

Approximated == lastCall # None /\ lastCall.op = "cubic_approximation"

\* the template the claim gives each preset: x = frame, y = value from 0 to 100
ClaimedTemplate(name) ==
    CASE name \in {"standard", "smooth-non-spatial", "expressive-non-spatial"} ->
            <<CubicBez(Pt(R(0), R(0)), Pt(R(13), R(100)), Pt(R(0), R(100)),
                       Pt(R(43), R(100)))>>
      [] name = "smooth-spatial" ->
            <<CubicBez(Pt(R(0), R(0)), Pt(R(20), R(100)), Pt(R(0), R(100)),
                       Pt(R(61), R(100)))>>
      [] name = "expressive-spatial" ->
            <<CubicBez(Pt(R(0), R(0)), Pt(R(5), R(15)), Pt(R(3), Frac(10154, 100)),
                       Pt(Frac(155, 10), Frac(10154, 100))),
              CubicBez(Pt(Frac(155, 10), Frac(10154, 100)), Pt(R(21), Frac(10154, 100)),
                       Pt(R(21), R(99)), Pt(R(42), R(100)))>>

\* the cubics of `template` stretched to n frames and to the range of anim
Stretched(template, n, anim) ==
    [c \in 1..Len(template) |->
        LET at(q) == Pt(RDiv(RMul(q.x, R(n)), template[Len(template)].p3.x),
                        RAdd(anim.value,
                             RDiv(RMul(q.y, RSub(anim.final_value, anim.value)), R(100))))
        IN  CubicBez(at(template[c].p0), at(template[c].p1), at(template[c].p2),
                     at(template[c].p3))]

\* C25: cubic_approximation fails with UnrecognizedSpring exactly for the
\* springs equal to none of the five presets, whatever the simulation would
\* give; a preset is accepted, and when its frames are counted the result is
\* its template: the one-cubic standard template for standard,
\* smooth-non-spatial and expressive-non-spatial, its own one-cubic template for
\* smooth-spatial and the two-cubic template for expressive-spatial
C25_TemplateOfSpring ==
    Approximated =>
        /\ (lastCall.input.spring \notin Presets)
              <=> (lastCall.result = Err([kind |-> "UnrecognizedSpring"]))
        /\ \A name \in SpringNames :
              (lastCall.input.spring = SpringFromStr(name).value) =>
                  IF lastCall.frames.ok
                  THEN lastCall.result = Ok(Stretched(ClaimedTemplate(name),
                                                      lastCall.frames.value,
                                                      lastCall.input.anim))
                  ELSE lastCall.result = lastCall.frames

\* a spring that is no preset and whose simulation would run too long
C25_Witness ==
    /\ Approximated
    /\ lastCall.input.spring \notin Presets
    /\ lastCall.frames = Err([kind |-> "RanTooLong"])
    /\ lastCall.result = Err([kind |-> "UnrecognizedSpring"])

----------------------------------------------------------------------------
(* Properties of spring expansion *)

Expanded == lastCall # None /\ lastCall.op = "Motion::new"

\* C27: spring expansion keeps keyframe order: for every spring-tagged series
\* of at least two keyframes, whatever its values (consecutive keyframes with
\* equal values included), the expanded keyframes start with the first
\* keyframe of the source unchanged and their frames are strictly increasing
C27_ExpansionKeepsOrder ==
    Expanded =>
        /\ ~lastCall.result.panic
        /\ lastCall.result.value.keyframes[1] = lastCall.input.source.keyframes[1]
        /\ StrictlyAscending(lastCall.result.value.keyframes)

\* C28: spring expansion reaches its targets: for each pair of consecutive
\* keyframes of a spring-tagged rotation or uniform scale series, the last
\* keyframe generated for the pair has exactly the value of the pair's second
\* keyframe (both components for a scale) and every keyframe generated before
\* it has the end value of its cubic (in both components for a scale), for
\* every target value, 0 included
C28_ExpansionReachesTargets ==
    (Expanded /\ ~lastCall.result.panic) =>
        \A m \in {lastCall.result.value} :
            \A n \in {Len(handwritten_cubic(lastCall.input.source.spring).value)} :
                \A i \in 1..(Len(lastCall.input.source.keyframes) - 1) :
                    \A j \in 1..n :
                        m.keyframes[1 + (i - 1) * n + j].value
                            = IF j = n
                              THEN lastCall.input.source.keyframes[i + 1].value
                              ELSE MotionValueOf(lastCall.input.ty,
                                                 m.ease[1 + (i - 1) * n + j].p3.y)

----------------------------------------------------------------------------
(* Range of the frames of part motions *)

\* the frames of the keyframes of the rotate and scale series of a group
MotionFrames(group) ==
    {group.rotate.keyframes[k].frame : k \in 1..Len(group.rotate.keyframes)}
        \cup {group.scale.keyframes[k].frame : k \in 1..Len(group.scale.keyframes)}

\* C29: every keyframe frame that TwirlParts or PulseParts assigns to a part
\* group lies within the range [0, frames] of the animation, for any number
\* of part groups
C29_PartFramesInRange ==
    (Built /\ plan.kind \in {"TwirlParts", "PulseParts"}) =>
        \A g \in 1..Len(Root.children) :
            \A f \in MotionFrames(Root.children[g].group) :
                ~RLt(f, R(0)) /\ ~RGt(f, animation.value.value.frames)

----------------------------------------------------------------------------
(* Splitting a path keyframe *)

SplitDone == lastCall # None /\ lastCall.op = "Keyframe::subpaths"

\* C30: splitting a path that is empty or begins with a MoveTo does not fail,
\* the subpaths concatenated in order are the elements of the path, every
\* subpath begins with a MoveTo and holds no other MoveTo, and the empty path
\* has no subpaths
C30_SubpathsLoseNothing ==
    SplitDone =>
        /\ ~lastCall.result.panic
        /\ Concat(lastCall.result.value) = lastCall.input
        /\ \A i \in 1..Len(lastCall.result.value) :
            /\ lastCall.result.value[i] # <<>>
            /\ lastCall.result.value[i][1].kind = "MoveTo"
            /\ \A j \in 2..Len(lastCall.result.value[i]) :
                lastCall.result.value[i][j].kind # "MoveTo"
        /\ lastCall.input = <<>> => lastCall.result.value = <<>>

====
